---- MODULE Spec2Model ----
(***************************************************************************)
(* NeuroVision-AI: the face tracker (services/aiEngine.ts, useFaceTracker) *)
(* and the rehabilitation session (components/RehabExercise.tsx).          *)
(*                                                                         *)
(* Numbers.  JavaScript numbers are modelled as scaled integers:           *)
(*   - frame fields (degrees, openness, gaze, confidence): thousandths;    *)
(*   - headStabilityScore: hundredths (0.05 = 5, 0.2 = 20, 100 = 10000);   *)
(*   - Math.sin/Math.cos values are inputs in thousandths, -1000..1000;    *)
(*   - Math.random() is an input in millionths, 0..999999.                 *)
(* Time.  A clock ticks every 100 ms (Advance).  Clicks, frames            *)
(* (requestAnimationFrame callbacks) and promise callbacks happen between  *)
(* two ticks of the clock.  A setInterval of 100 ms armed between two      *)
(* ticks is due after the next tick and before the one after it; one of    *)
(* 1000 ms after the tenth.  A due interval fires, or is cleared, before   *)
(* the clock ticks again.                                                  *)
(***************************************************************************)
EXTENDS Integers, Sequences, FiniteSets, TLC

VARIABLES
    \* ---- App.tsx / props of RehabExercise
    mode,               \* rehabMode: "DEMO" | "REAL"
    exerciseType,       \* "FOLLOW_DOT" | "BLINK_TRAINING" | "HEAD_STABILITY"
    durationSeconds,    \* prop durationSeconds
    currentView,        \* "REHAB": RehabExercise is mounted; "ASSESSMENT":
                        \* Assessment is; "HOME", "ANALYTICS": neither is
    \* ---- RehabExercise state
    isPlaying, isFinished, timeLeft, score, sessionBlinks,
    headStabilityScore, demoState,
    \* ---- the two setInterval timers of RehabExercise (steps since armed)
    timerElapsed, gameElapsed,
    \* ---- useFaceTracker state and refs
    faceData, blinkCount, videoStream, permissionError,
    frameId,            \* TRUE: a requestAnimationFrame callback is pending
    loopEnv,            \* what the pending callback (loop) closes over: << >>
                        \* or << [mode, demoProfile] >> of the render whose
                        \* effect defined it
    strayFrames,        \* animation frame callbacks pending in the browser that
                        \* frameId.current does not refer to
    lastBlinkState, prevDataRef,
    videoIsNew,         \* video.currentTime # lastVideoTime.current
    sinceLastProcess,   \* min(time - lastProcessTimeRef.current, 32)
    \* ---- camera and video element
    cameraPending,      \* getUserMedia calls not yet settled
    openStreams,        \* acquired streams whose tracks are not stopped
    srcObject,          \* videoRef.current.srcObject: "none" | "live" | "ended"
    \* ---- history (not program state)
    sessionLastBlink,   \* blinkDetected of the last frame of this session
    sinceScoreTick,     \* clock ticks while Playing since the last scoring
                        \* tick (or start, or resume), up to 3
    pauses,             \* pauses of this session
    windowMs,           \* ms fed to the loop since the tick that opened the
                        \* measuring window was processed; -1: none is open
    windowFrames,       \* ticks processed in the window after that one
    steadyInput,        \* the detection every tick of a steady run reads
    steadyStart,        \* the previous-frame buffer when the steady run began
    steadyTicks,        \* ticks processed in the steady run
    lastTick,           \* the path the last observed run of loop took, and
                        \* the detection it read
    \* ---- Assessment.tsx
    stepIndex,          \* state stepIndex
    stepTimeLeft,       \* state timeLeft of Assessment
    stepElapsed,        \* clock ticks since the step timer's interval was set
    completionTimers,   \* timeouts set by the last step and not yet fired
    completions,        \* calls of onComplete
    \* ---- aiEngine.ts, module scope
    faceLandmarker,     \* TRUE: faceLandmarker is not null
    isModelLoading,
    modelLoads,         \* calls of setupModel past their guard and not yet
                        \* returned, by the await they are suspended at
    lastLoad,           \* how the last load to finish ended (history)
    trackerMounts       \* mounts of a component using the tracker (history)

vars == << mode, exerciseType, durationSeconds, currentView,
           isPlaying, isFinished, timeLeft,
           score, sessionBlinks, headStabilityScore, demoState,
           timerElapsed, gameElapsed, faceData, blinkCount,
           videoStream, permissionError, frameId, loopEnv, strayFrames,
           lastBlinkState,
           prevDataRef,
           videoIsNew, sinceLastProcess, cameraPending, openStreams, srcObject,
           sessionLastBlink, sinceScoreTick, pauses,
           windowMs, windowFrames, steadyInput, steadyStart, steadyTicks,
           lastTick,
           stepIndex, stepTimeLeft, stepElapsed, completionTimers, completions,
           faceLandmarker, isModelLoading, modelLoads, lastLoad,
           trackerMounts >>

sessionVars == << isPlaying, isFinished, timeLeft, score, sessionBlinks,
                  headStabilityScore, demoState >>
timerVars   == << timerElapsed, gameElapsed >>
frameVars   == << faceData, blinkCount, lastBlinkState, prevDataRef,
                  videoIsNew, sinceLastProcess >>
cameraVars  == << videoStream, permissionError, cameraPending, openStreams,
                  srcObject >>
propVars    == << mode, exerciseType, durationSeconds, currentView >>
assessVars  == << stepIndex, stepTimeLeft, stepElapsed, completionTimers,
                  completions >>
modelVars   == << faceLandmarker, isModelLoading, modelLoads, lastLoad,
                  trackerMounts >>
\* what RehabExercise and its tracker's loop leave alone: the probes,
\* Assessment and the model load
probeVars   == << windowMs, windowFrames, steadyInput, steadyStart, steadyTicks,
                  lastTick, assessVars, modelVars >>
historyVars == << sessionLastBlink, sinceScoreTick, pauses, probeVars >>

----------------------------------------------------------------------------
(* Bounds of the model *)

MaxDuration == 1        \* durationSeconds is drawn from 1..MaxDuration
MaxBlinks   == 2        \* blinkCount stops growing here
MaxPauses   == 1        \* pauses per session
MaxPending  == 1        \* getUserMedia calls in flight
MaxCountdown == 2       \* durationSeconds of the countdown specification
MaxWindowFrames == 3    \* processed ticks counted in one measuring window
MaxSteadyTicks == 10    \* processed ticks of a run on a constant detection
MaxTimeouts == 2        \* completion timeouts of Assessment not yet fired
MaxMounts == 3          \* mounts of a component using the tracker

----------------------------------------------------------------------------
(* Small arithmetic *)

Min(a, b) == IF a < b THEN a ELSE b
Max(a, b) == IF a > b THEN a ELSE b
Abs(a)    == IF a < 0 THEN -a ELSE a

\* a / b rounded toward zero, for b > 0
Quot(a, b) == IF a >= 0 THEN a \div b ELSE -((-a) \div b)

----------------------------------------------------------------------------
(* Frames: FaceData, aiEngine.ts *)

Point(px, py) == [x |-> px, y |-> py]

DEFAULT_FACE_DATA ==
    [ yaw |-> 0, pitch |-> 0, roll |-> 0,
      eyeOpennessLeft |-> 900, eyeOpennessRight |-> 900,
      mouthSymmetry |-> 950, gazeX |-> 0, gazeY |-> 0,
      blinkDetected |-> FALSE, confidence |-> 0,
      leftEye |-> << >>, rightEye |-> << >> ]

\* POSE_SMOOTHING = 0.5 and LANDMARK_SMOOTHING = 0.6, in tenths
POSE_SMOOTHING == 5
LANDMARK_SMOOTHING == 6

\* lerp with the factor applied as a percentage (a seeded fault)
lerpSlow(start, end, factor) == start + Quot((end - start) * factor, 100)

\* start + (end - start) * factor
lerp(start, end, factor) == start + Quot((end - start) * factor, 10)

lerpPoint(start, end, factor) ==
    Point(lerp(start.x, end.x, factor), lerp(start.y, end.y, factor))

\* smoothEye taking a missing prev for an eye at the image's centre (a seeded
\* fault)
smoothEyeFromCentre(prev, curr, factor) ==
    LET p == IF prev = << >> THEN [ q \in DOMAIN curr |-> Point(500, 500) ]
             ELSE prev[1]
    IN  << [ q \in DOMAIN curr |-> lerpPoint(p[q], curr[q], factor) ] >>

\* prev and the result are << >> (undefined) or a one-element sequence
smoothEye(prev, curr, factor) ==
    IF prev = << >> THEN << curr >>
    ELSE << [ pupil       |-> lerpPoint(prev[1].pupil, curr.pupil, factor),
              upperLid    |-> lerpPoint(prev[1].upperLid, curr.upperLid, factor),
              lowerLid    |-> lerpPoint(prev[1].lowerLid, curr.lowerLid, factor),
              innerCorner |-> lerpPoint(prev[1].innerCorner, curr.innerCorner, factor),
              outerCorner |-> lerpPoint(prev[1].outerCorner, curr.outerCorner, factor) ] >>

----------------------------------------------------------------------------
(* 1. SIMULATION LOGIC: simulateData, aiEngine.ts *)

\* headStabilityMult with the tremor of LOW for every profile (a seeded fault)
headStabilityMultTremor(profile) == 40
\* headStabilityMult, in tenths
headStabilityMult(profile) ==
    IF profile = "LOW" THEN 40 ELSE IF profile = "HIGH" THEN 2 ELSE 10
\* blinkRateMult, in hundredths
blinkRateMult(profile) ==
    IF profile = "LOW" THEN 15 ELSE IF profile = "HIGH" THEN 600 ELSE 100
\* gazeJitter, in thousandths
gazeJitter(profile) ==
    IF profile = "LOW" THEN 150 ELSE IF profile = "HIGH" THEN 20 ELSE 0
\* asymmetry, in thousandths; first with the sign of the droop wrong (a
\* seeded fault)
asymmetryNegative(profile) == IF profile = "LOW" THEN -200 ELSE 0
asymmetry(profile) == IF profile = "LOW" THEN 200 ELSE 0

SACCADE_INTERVAL(profile) == IF profile = "HIGH" THEN 800 ELSE 1800

\* Math.min(1, (time % SACCADE_INTERVAL) / 250), in thousandths
saccadeProgress(time, profile) ==
    Min(1000, ((time % SACCADE_INTERVAL(profile)) * 1000) \div 250)

\* 1 - Math.pow(1 - progress, 3)
easeOut(progress) ==
    1000 - ((1000 - progress) * (1000 - progress) * (1000 - progress)) \div 1000000

\* blinkCycle > 0.96 with blinkCycleLen = 3500 / blinkRateMult; the length is
\* kept exact as cycle3 / 3 (70000/3, 1750/3 and 10500/3 ms)
isForcedBlink(time, profile) ==
    LET cycle3 == 1050000 \div blinkRateMult(profile)
    IN  ((3 * time) % cycle3) * 100 > 96 * cycle3

\* Math.random() < blinkProb, in millionths
isRandomBlink(rand, progress, profile) ==
    rand < ((IF progress < 500 THEN 5000 ELSE 1000) * blinkRateMult(profile)) \div 100

\* eyelid openness of a frame that is not blinking
openEyelid(gazeY, pitch, sinTremor) ==
    LET gazeEffect  == Max(0, Quot(gazeY * 2, 10))
        pitchEffect == Max(0, Quot(pitch, 100))
        tremor      == Quot(sinTremor * 5, 1000)
    IN  Max(100, 940 - gazeEffect - pitchEffect + tremor)

\* s: the values simulateData reads from Math.sin, Math.cos and Math.random
\* at the given time
simulateData(s, profile) ==
    LET m     == headStabilityMult(profile)
        asym  == asymmetry(profile)
        yaw   == Quot(s.sinYaw * 80 * m + s.sinYawMicro * 15 * m, 100)
        pitch == Quot((s.cosPitch * 4 + 2000 + s.sinPitchMicro) * m, 10)
        roll  == Quot((s.sinRoll * 20 + s.cosRoll * 5) * m, 100)
        targetX     == Quot(s.sinTargetX, 2)
        targetY     == Quot(s.cosTargetY * 3, 10)
        prevTargetX == Quot(s.sinPrevTargetX, 2)
        prevTargetY == Quot(s.cosPrevTargetY * 3, 10)
        progress    == saccadeProgress(s.time, profile)
        ease        == easeOut(progress)
        jitterX == IF gazeJitter(profile) > 0
                   THEN Quot((s.randX - 500000) * gazeJitter(profile), 1000000) ELSE 0
        jitterY == IF gazeJitter(profile) > 0
                   THEN Quot((s.randY - 500000) * gazeJitter(profile), 1000000) ELSE 0
        scanX == prevTargetX + Quot((targetX - prevTargetX) * ease, 1000) + jitterX
        scanY == prevTargetY + Quot((targetY - prevTargetY) * ease, 1000) + jitterY
        gazeX == scanX + Quot(-yaw, 35)
        gazeY == scanY + Quot(-pitch, 35)
        isBlinking == isForcedBlink(s.time, profile)
                      \/ isRandomBlink(s.randBlink, progress, profile)
        openness   == IF isBlinking THEN 20 ELSE openEyelid(gazeY, pitch, s.sinTremor)
        headXShift == Quot(yaw * 5, 1000)
        headYShift == Quot(pitch * 5, 1000)
        irisXShift == Quot(gazeX * 8, 100)
        irisYShift == Quot(gazeY * 8, 100)
        lidTrackY  == Quot(irisYShift, 2)
        blinkOffset == Quot((1000 - openness) * 35, 1000)
        lowerOff    == Quot(blinkOffset * 2, 10)
    IN  [ yaw |-> yaw, pitch |-> pitch, roll |-> roll,
          eyeOpennessLeft  |-> openness,
          eyeOpennessRight |-> Quot(openness * (1000 - asym), 1000),
          mouthSymmetry |-> 950 - asym,
          gazeX |-> gazeX, gazeY |-> gazeY,
          blinkDetected |-> isBlinking,
          confidence |-> 980,
          leftEye |-> << [
              pupil       |-> Point(400 + headXShift + irisXShift, 450 + headYShift + irisYShift),
              upperLid    |-> Point(400 + headXShift, 420 + headYShift + lidTrackY + blinkOffset),
              lowerLid    |-> Point(400 + headXShift, 480 + headYShift + lowerOff),
              innerCorner |-> Point(460 + headXShift, 450 + headYShift),
              outerCorner |-> Point(340 + headXShift, 450 + headYShift) ] >>,
          rightEye |-> << [
              pupil       |-> Point(600 + headXShift + irisXShift, 450 + headYShift + irisYShift),
              upperLid    |-> Point(600 + headXShift,
                                    420 + headYShift + lidTrackY + blinkOffset + Quot(asym * 2, 100)),
              lowerLid    |-> Point(600 + headXShift, 480 + headYShift + lowerOff),
              innerCorner |-> Point(540 + headXShift, 450 + headYShift),
              outerCorner |-> Point(660 + headXShift, 450 + headYShift) ] >> ]

----------------------------------------------------------------------------
(* 2. REAL COMPUTER VISION LOGIC: processFrame, aiEngine.ts *)

\* the blink decision of processFrame on the two blendshape scores
isStrongBlink(blinkLeftScore, blinkRightScore) ==
    blinkLeftScore + blinkRightScore > 2 * 500
\* the subtle rule with an eye difference of exactly 0.2 let through (a
\* seeded fault)
isSubtleBlinkAtDiff(blinkLeftScore, blinkRightScore) ==
    /\ blinkLeftScore + blinkRightScore > 2 * 200
    /\ Abs(blinkLeftScore - blinkRightScore) <= 200
    /\ blinkLeftScore > 100
    /\ blinkRightScore > 100
isSubtleBlink(blinkLeftScore, blinkRightScore) ==
    /\ blinkLeftScore + blinkRightScore > 2 * 200
    /\ Abs(blinkLeftScore - blinkRightScore) < 200
    /\ blinkLeftScore > 100
    /\ blinkRightScore > 100

\* the frame built from a detection d (landmarks and blendshape scores) and
\* the previous frame prev
smoothedData(d, prev) ==
    LET midPointX == (d.rightCheekX + d.leftCheekX) \div 2
        rawYaw    == (d.noseX - midPointX) * 200
        eyesMidY  == (d.leftEye.upperLid.y + d.rightEye.upperLid.y) \div 2
        rawPitch  == (d.noseY - eyesMidY - 100) * 200
    IN  [ yaw   |-> lerp(prev.yaw, rawYaw, POSE_SMOOTHING),
          pitch |-> lerp(prev.pitch, rawPitch, POSE_SMOOTHING),
          roll  |-> 0,
          eyeOpennessLeft  |-> 1000 - d.blinkLeftScore,
          eyeOpennessRight |-> 1000 - d.blinkRightScore,
          mouthSymmetry |-> 950,
          gazeX |-> lerp(prev.gazeX, (d.noseX - 500) * 2, POSE_SMOOTHING),
          gazeY |-> lerp(prev.gazeY, (d.noseY - 500) * 2, POSE_SMOOTHING),
          blinkDetected |-> isStrongBlink(d.blinkLeftScore, d.blinkRightScore)
                            \/ isSubtleBlink(d.blinkLeftScore, d.blinkRightScore),
          confidence |-> 990,
          leftEye  |-> smoothEye(prev.leftEye, d.leftEye, LANDMARK_SMOOTHING),
          rightEye |-> smoothEye(prev.rightEye, d.rightEye, LANDMARK_SMOOTHING) ]

\* the raw pose of a detection: the four values smoothedData smooths with
\* POSE_SMOOTHING
rawPose(d) ==
    [ yaw   |-> (d.noseX - (d.rightCheekX + d.leftCheekX) \div 2) * 200,
      pitch |-> (d.noseY - (d.leftEye.upperLid.y + d.rightEye.upperLid.y) \div 2
                 - 100) * 200,
      gazeX |-> (d.noseX - 500) * 2,
      gazeY |-> (d.noseY - 500) * 2 ]

\* the returns of the readiness check and of the no-face branch, each first
\* with a field it sets left as it was (seeded faults)
notReadyDataAsBefore(prev) == prev
notReadyData(prev) == [prev EXCEPT !.confidence = 0]
noFaceDataStillBlinking(prev) == [prev EXCEPT !.confidence = 300]
noFaceData(prev)   == [prev EXCEPT !.confidence = 300, !.blinkDetected = FALSE]

\* processFrame with the catch returning the no-face frame (a seeded fault)
processFrameErrorAsNoFace(ready, advanced, d, prev) ==
    IF ~ready THEN notReadyData(prev)
    ELSE IF ~advanced THEN prev
    ELSE IF d.outcome = "face" THEN smoothedData(d, prev)
    ELSE noFaceData(prev)

\* processFrame: the frame returned, given whether the model and the video
\* are ready, whether the video has advanced, and the detector's result
\* d.outcome: "face" | "noface" | "error"
processFrame(ready, advanced, d, prev) ==
    IF ~ready THEN notReadyData(prev)
    ELSE IF ~advanced THEN prev
    ELSE IF d.outcome = "error" THEN prev
    ELSE IF d.outcome = "face" THEN smoothedData(d, prev)
    ELSE noFaceData(prev)

\* whether processFrame returns a new object (TRUE) or prevDataRef.current
\* itself (FALSE): setFaceData with the same object causes no re-render
processFrameIsNewObject(ready, advanced, d) ==
    ~ready \/ (advanced /\ d.outcome # "error")

----------------------------------------------------------------------------
(* Camera: startCamera, stopCamera and the MAIN LOOP effect of              *)
(* useFaceTracker, aiEngine.ts                                              *)

Camera == [ videoStream     |-> videoStream,
            permissionError |-> permissionError,
            cameraPending   |-> cameraPending,
            openStreams     |-> openStreams,
            srcObject       |-> srcObject ]

\* stopCamera: stops the tracks of the stream held in state, if any
stopCamera(cam) ==
    IF cam.videoStream
    THEN [cam EXCEPT !.videoStream = FALSE, !.openStreams = @ - 1,
                     !.srcObject = "ended"]
    ELSE cam

\* startCamera up to its await: a getUserMedia call is in flight
startCamera(cam) ==
    IF cam.videoStream THEN cam
    ELSE [cam EXCEPT !.cameraPending = @ + 1]

\* whether the effect, run with these values, calls getUserMedia
effectStartsCamera(active, m, cam) ==
    active /\ m = "REAL" /\ ~cam.videoStream /\ ~cam.permissionError

\* the MAIN LOOP effect, run after a change of active, mode, videoStream,
\* permissionError or demoProfile: the camera afterwards (a setVideoStream
\* (null) of stopCamera re-runs the effect, which then finds no stream)
mainLoopEffectCamera(active, m, cam) ==
    IF ~active THEN stopCamera(cam)
    ELSE IF effectStartsCamera(active, m, cam) THEN startCamera(cam)
    ELSE IF m = "DEMO" THEN stopCamera(cam)
    ELSE cam

\* the effect requesting a frame although inactive (a seeded fault)
alwaysFrame(active) == TRUE
\* ... and whether an animation frame is requested (TRUE) or cancelled
mainLoopEffectFrame(active) == active

\* the effect defining loop anew only when none is pending (a seeded fault:
\* the callback of an earlier render goes on running)
staleClosure(active, m, profile) ==
    IF ~active THEN << >>
    ELSE IF loopEnv # << >> THEN loopEnv
    ELSE << [mode |-> m, demoProfile |-> profile] >>
\* ... and loop, the callback it requests: defined by this run of the effect,
\* it reads mode and demoProfile of this render; the cleanup has cancelled
\* the callback of the render before
loopClosure(active, m, profile) ==
    IF active THEN << [mode |-> m, demoProfile |-> profile] >> ELSE << >>

\* the cleanup of the effect's previous run leaving the frame it requested
\* pending (a seeded fault)
cleanupKeepsFrame(registered, pending) == pending
\* the cleanup, registered by a run with active = true, calls
\* cancelAnimationFrame(frameId.current): whether the callback frameId.current
\* refers to is still pending afterwards
cleanupFrame(registered, pending) == IF registered THEN FALSE ELSE pending

\* the callbacks left pending without a reference: a run with active = true
\* assigns frameId.current = requestAnimationFrame(loop), and a callback still
\* pending under the old id can no longer be cancelled
strayAfterEffect(active, registered, pending, stray) ==
    IF active /\ cleanupFrame(registered, pending) THEN stray + 1 ELSE stray

\* the effect as a step: sets the camera variables, frameId and the callback
RunMainLoopEffect(active, m, profile, cam) ==
    /\ effectStartsCamera(active, m, cam) => cam.cameraPending < MaxPending
    /\ LET c == mainLoopEffectCamera(active, m, cam)
       IN  /\ videoStream' = c.videoStream
           /\ permissionError' = c.permissionError
           /\ cameraPending' = c.cameraPending
           /\ openStreams' = c.openStreams
           /\ srcObject' = c.srcObject
    /\ frameId' = mainLoopEffectFrame(active)
    /\ loopEnv' = loopClosure(mainLoopEffectFrame(active), m, profile)
    /\ strayFrames' = strayAfterEffect(active, loopEnv # << >>, frameId, strayFrames)

----------------------------------------------------------------------------
(* CLINICAL ANALYSIS ENGINE: getDetailedAnalysis, RehabExercise.tsx *)

\* exerciseType.replace('_', ' ')
replaceUnderscore(e) ==
    IF e = "FOLLOW_DOT" THEN "FOLLOW DOT"
    ELSE IF e = "BLINK_TRAINING" THEN "BLINK TRAINING"
    ELSE "HEAD STABILITY"

\* Math.round(n / d) for n >= 0, d > 0
RoundDiv(n, d) == (2 * n + d) \div (2 * d)

buildReport(e, dur, sc, val, unit, status, rec, notes) ==
    [ exerciseType |-> replaceUnderscore(e), duration |-> dur, score |-> sc,
      clinicalValue |-> val, clinicalUnit |-> unit, status |-> status,
      recommendation |-> rec, notes |-> notes ]

\* the DEMO branch reporting the raw score as a measured value (a seeded
\* fault)
demoReportMeasured(e, dur, sc, profile) ==
    buildReport(e, dur, sc, sc, "BPM", "GOOD", "Healthy blink patterns.", << >>)

\* DEMO OVERRIDES
demoReport(e, dur, sc, profile) ==
    IF e = "BLINK_TRAINING" THEN
        IF profile = "LOW" THEN buildReport(e, dur, sc, 6, "BPM", "WARNING",
            "Blink rate is critically low. Blink awareness exercises recommended.",
            << "Severe Dry Eye Risk", "Incomplete Blink Pattern" >>)
        ELSE IF profile = "HIGH" THEN buildReport(e, dur, sc, 42, "BPM", "WARNING",
            "High frequency blinking detected. Monitor for blepharospasm.",
            << "Excessive Blinking", "Possible Irritation", "Anxiety Indicated" >>)
        ELSE buildReport(e, dur, sc, 16, "BPM", "GOOD",
            "Normal spontaneous blink rate observed.",
            << "Healthy tear film", "Good rhythm" >>)
    ELSE IF e = "FOLLOW_DOT" THEN
        IF profile = "LOW" THEN buildReport(e, dur, sc, 45, "% Accuracy", "CRITICAL",
            "Significant gaze instability detected. Vestibular consult advised.",
            << "Tracking Latency", "Saccadic Intrusion", "Poor Fixation" >>)
        ELSE IF profile = "HIGH" THEN buildReport(e, dur, sc, 98, "% Accuracy", "GOOD",
            "Oculomotor control is excellent. No deficits found.",
            << "Smooth Pursuit", "Accurate Saccades" >>)
        ELSE buildReport(e, dur, sc, 88, "% Accuracy", "GOOD",
            "Tracking falls within normal clinical limits.",
            << "Good Oculomotor Control" >>)
    ELSE
        IF profile = "LOW" THEN buildReport(e, dur, sc, 35, "% Stability", "CRITICAL",
            "Poor cephalic control. Risk of cervicogenic dizziness.",
            << "Postural Drift", "Tremor Detected", "Neck Stiffness" >>)
        ELSE IF profile = "HIGH" THEN buildReport(e, dur, sc, 96, "% Stability", "GOOD",
            "Excellent vestibulo-collic reflex function.",
            << "High Stability", "No Tremor" >>)
        ELSE buildReport(e, dur, sc, 82, "% Stability", "GOOD",
            "Head stability is adequate for daily tasks.",
            << "Normal Range of Motion" >>)

\* REAL CALCULATION LOGIC; elapsed = durationSeconds - timeLeft
\* the divisor floored at one minute (a seeded fault)
measuredBpmFloored(blinks, elapsed) == RoundDiv(blinks * 60, Max(elapsed, 60))
\* Math.round(sessionBlinks / durationMins), durationMins = elapsed / 60 || 1
measuredBpm(blinks, elapsed) ==
    IF elapsed = 0 THEN blinks ELSE RoundDiv(blinks * 60, elapsed)

\* the efficiency without Math.min(100, ...) (a seeded fault)
measuredEfficiencyUnclamped(sc, elapsed) ==
    IF elapsed = 0 THEN (IF sc = 0 THEN 0 ELSE 100)
    ELSE RoundDiv(sc * 10, elapsed)
\* Math.min(100, Math.round((score / (elapsed * 10)) * 100)) || 0
\* (elapsed = 0: score / 0 is Infinity, or NaN when score = 0)
measuredEfficiency(sc, elapsed) ==
    IF elapsed = 0 THEN (IF sc = 0 THEN 0 ELSE 100)
    ELSE Min(100, RoundDiv(sc * 10, elapsed))

\* the status thresholds, first with the limits themselves counted as
\* abnormal (seeded faults)
blinkStatusStrict(bpm) == IF bpm <= 10 \/ bpm >= 30 THEN "WARNING" ELSE "GOOD"
blinkStatus(bpm) == IF bpm < 10 \/ bpm > 30 THEN "WARNING" ELSE "GOOD"
stabilityStatusStrict(stabScore) ==
    IF stabScore <= 60 THEN "CRITICAL"
    ELSE IF stabScore <= 80 THEN "WARNING" ELSE "GOOD"
stabilityStatus(stabScore) ==
    IF stabScore < 60 THEN "CRITICAL"
    ELSE IF stabScore < 80 THEN "WARNING" ELSE "GOOD"
dotStatus(efficiency) == IF efficiency < 50 THEN "CRITICAL" ELSE "GOOD"

measuredReport(e, dur, sc, blinks, elapsed, stability) ==
    IF e = "BLINK_TRAINING" THEN
        LET bpm    == measuredBpm(blinks, elapsed)
            status == blinkStatus(bpm)
        IN  buildReport(e, dur, sc, bpm, "BPM", status,
                IF status = "GOOD" THEN "Healthy blink patterns."
                ELSE "Abnormal blink rate detected.",
                IF bpm < 10 THEN << "Possible Dry Eye" >> ELSE << >>)
    ELSE IF e = "HEAD_STABILITY" THEN
        LET stabScore == RoundDiv(stability, 100)
            status    == stabilityStatus(stabScore)
        IN  buildReport(e, dur, sc, stabScore, "% Stability", status,
                "Stabilization training ongoing.", << >>)
    ELSE
        LET efficiency == measuredEfficiency(sc, elapsed)
            status     == dotStatus(efficiency)
        IN  buildReport(e, dur, sc, efficiency, "% Accuracy", status,
                "Gaze control assessment complete.", << >>)

\* getDetailedAnalysis as a function of what it reads
detailedAnalysis(m, e, dur, left, sc, blinks, stability, profile) ==
    IF m = "DEMO"
    THEN demoReport(e, dur, sc, profile)
    ELSE measuredReport(e, dur, sc, blinks, dur - left, stability)

getDetailedAnalysis ==
    detailedAnalysis(mode, exerciseType, durationSeconds, timeLeft, score,
                     sessionBlinks, headStabilityScore, demoState)

\* const analysis = isFinished ? getDetailedAnalysis() : null, per render
analysis == IF isFinished THEN << getDetailedAnalysis >> ELSE << >>

----------------------------------------------------------------------------
(* Inputs *)

Profiles  == { "HEALTHY", "LOW", "HIGH" }
Exercises == { "FOLLOW_DOT", "BLINK_TRAINING", "HEAD_STABILITY" }
Modes     == { "DEMO", "REAL" }

\* milliseconds between two animation frames
FrameDeltas == { 16, 32 }

\* a simulated tick with the head at rest and the eyes open
SimCalm ==
    [ time |-> 1000, sinYaw |-> 0, sinYawMicro |-> 0, cosPitch |-> -500,
      sinPitchMicro |-> 0, sinRoll |-> 0, cosRoll |-> 0,
      sinTargetX |-> 0, cosTargetY |-> 0, sinPrevTargetX |-> 0,
      cosPrevTargetY |-> 0, randX |-> 500000, randY |-> 500000,
      randBlink |-> 999999, sinTremor |-> 0 ]
\* ... with the head turned, with a random blink, inside the forced blink of
\* the 3500 ms cycle
SimTurned == [SimCalm EXCEPT !.sinYaw = 1000, !.cosPitch = 1000]
SimBlink  == [SimCalm EXCEPT !.randBlink = 0]
SimForced == [SimCalm EXCEPT !.time = 3400]
\* every sine, cosine and random draw at its largest, and at its smallest
\* (no blink, mid-saccade)
SimHigh ==
    [ time |-> 1000, sinYaw |-> 1000, sinYawMicro |-> 1000, cosPitch |-> 1000,
      sinPitchMicro |-> 1000, sinRoll |-> 1000, cosRoll |-> 1000,
      sinTargetX |-> 1000, cosTargetY |-> 1000, sinPrevTargetX |-> 1000,
      cosPrevTargetY |-> 1000, randX |-> 999999, randY |-> 999999,
      randBlink |-> 999999, sinTremor |-> 1000 ]
SimLow ==
    [ time |-> 100, sinYaw |-> -1000, sinYawMicro |-> -1000, cosPitch |-> -1000,
      sinPitchMicro |-> -1000, sinRoll |-> -1000, cosRoll |-> -1000,
      sinTargetX |-> -1000, cosTargetY |-> -1000, sinPrevTargetX |-> 1000,
      cosPrevTargetY |-> 1000, randX |-> 0, randY |-> 0,
      randBlink |-> 999999, sinTremor |-> -1000 ]

SessionSims == { SimCalm, SimTurned, SimBlink }
FrameSims   == SessionSims \cup { SimForced, SimHigh, SimLow }

\* the tick at time 6300 ms (saccade interval 1800 ms): sin(time / 4000) is 1
\* and the head is at the far end of its swing
SimSwing ==
    [ time |-> 6300, sinYaw |-> 1000, sinYawMicro |-> 657, cosPitch |-> 306,
      sinPitchMicro |-> -859, sinRoll |-> 867, cosRoll |-> -490,
      sinTargetX |-> -350, cosTargetY |-> 583, sinPrevTargetX |-> 960,
      cosPrevTargetY |-> 807, randX |-> 500000, randY |-> 500000,
      randBlink |-> 999999, sinTremor |-> 330 ]
\* the sines, cosines and random draws that make gazeX and gazeY largest
\* (targets and jitter up, yaw and pitch down), and smallest
SimGazeMax ==
    [ time |-> 1000, sinYaw |-> -1000, sinYawMicro |-> -1000, cosPitch |-> -1000,
      sinPitchMicro |-> -1000, sinRoll |-> 0, cosRoll |-> 0,
      sinTargetX |-> 1000, cosTargetY |-> 1000, sinPrevTargetX |-> 1000,
      cosPrevTargetY |-> 1000, randX |-> 999999, randY |-> 999999,
      randBlink |-> 999999, sinTremor |-> 0 ]
SimGazeMin ==
    [ time |-> 1000, sinYaw |-> 1000, sinYawMicro |-> 1000, cosPitch |-> 1000,
      sinPitchMicro |-> 1000, sinRoll |-> 0, cosRoll |-> 0,
      sinTargetX |-> -1000, cosTargetY |-> -1000, sinPrevTargetX |-> -1000,
      cosPrevTargetY |-> -1000, randX |-> 0, randY |-> 0,
      randBlink |-> 999999, sinTremor |-> 0 ]
GazeSims == { SimCalm, SimSwing, SimGazeMax, SimGazeMin }

EyeAt(cx, cy) ==
    [ pupil |-> Point(cx, cy), upperLid |-> Point(cx, cy - 50),
      lowerLid |-> Point(cx, cy + 30), innerCorner |-> Point(cx + 60, cy),
      outerCorner |-> Point(cx - 60, cy) ]

\* detector results: a centred face with open eyes, blinking, with both eyes
\* shut, winking; no face; detectForVideo throws
FaceCentred ==
    [ outcome |-> "face", blinkLeftScore |-> 0, blinkRightScore |-> 0,
      noseX |-> 500, noseY |-> 500, leftCheekX |-> 300, rightCheekX |-> 700,
      leftEye |-> EyeAt(400, 450), rightEye |-> EyeAt(600, 450) ]
FaceBlink == [FaceCentred EXCEPT !.blinkLeftScore = 800, !.blinkRightScore = 700]
FaceShut  == [FaceCentred EXCEPT !.blinkLeftScore = 1000, !.blinkRightScore = 1000]
FaceWink  == [FaceCentred EXCEPT !.blinkLeftScore = 1000]
NoFace    == [FaceCentred EXCEPT !.outcome = "noface"]
DetectorError == [FaceCentred EXCEPT !.outcome = "error"]

\* detector results with the head turned, and with the nose at the left
\* upper and at the right lower corner of the image
FaceTurned    == [FaceCentred EXCEPT !.noseX = 600, !.noseY = 550]
FaceLeftEdge  == [FaceCentred EXCEPT !.noseX = 0, !.noseY = 0]
FaceRightEdge == [FaceCentred EXCEPT !.noseX = 1000, !.noseY = 1000]

\* a face nearer to the camera: the eyes further apart and higher
FaceNear ==
    [FaceCentred EXCEPT !.leftEye = EyeAt(350, 400), !.rightEye = EyeAt(650, 400)]

\* the detections a steady run repeats
SteadyInputs == { FaceCentred, FaceTurned, FaceLeftEdge, FaceRightEdge }

\* the frame after k ticks that process the detection d, from prev
RECURSIVE framesAfter(_, _, _)
framesAfter(d, prev, k) ==
    IF k = 0 THEN prev
    ELSE framesAfter(d, processFrame(TRUE, TRUE, d, prev), k - 1)

\* previous-frame values a steady run starts from: the one at mount, and
\* those left by 1 and by MaxSteadyTicks ticks on a detection
StartFrames ==
    { DEFAULT_FACE_DATA } \cup
    { framesAfter(d, DEFAULT_FACE_DATA, k) :
        d \in SteadyInputs, k \in { 1, MaxSteadyTicks } }

\* the detections of a first detected frame, and what the previous-frame
\* buffer holds when no frame was detected before it: the frame at mount, the
\* no-face frame made of it, or (the mode switched from DEMO) a simulated
\* frame of one of the profiles
\* blendshape scores eyeBlinkLeft / eyeBlinkRight in thousandths, on and next
\* to the thresholds of the blink decision; 0 is also a missing blendshape
\* (score || 0)
BlinkScores == { 0, 100, 101, 200, 201, 300, 400, 401, 500, 501, 600, 1000 }
BlinkInputs ==
    { [FaceCentred EXCEPT !.blinkLeftScore = l, !.blinkRightScore = r] :
        l \in BlinkScores, r \in BlinkScores }

FirstInputs == { FaceCentred, FaceTurned, FaceNear }
FirstStarts ==
    { DEFAULT_FACE_DATA, noFaceData(DEFAULT_FACE_DATA) } \cup
    { simulateData(SimTurned, p) : p \in Profiles }

\* Finished sessions for the report card: session lengths (the prop
\* durationSeconds, 60 in App.tsx), blink counts, FOLLOW_DOT scores and
\* stability scores (hundredths, multiples of 0.05) around the thresholds of
\* getDetailedAnalysis
AnalysisDurations   == { 0, 30, 45, 60 }
AnalysisBlinks      == { 0, 2, 5, 9, 10, 20, 30, 31 }
AnalysisScores      == { 0, 1, 149, 150, 224, 225, 299, 300, 450, 700 }
AnalysisStabilities == { 0, 4500, 5945, 5950, 6000, 7945, 7950, 8000, 10000 }

\* the frames simulateData gives on the simulated ticks (the same values,
\* computed once)
SimFrame ==
    [ p \in Profiles |-> [ s \in FrameSims \cup GazeSims |-> simulateData(s, p) ] ]

\* what one run of loop reads: in DEMO the simulated values, in REAL whether
\* model and video are ready and the detector's result.
\* In a session of exercise e: ticks and detections that make e score or not
SessionInputs(m, e) ==
    IF m = "DEMO"
    THEN [ s : IF e = "BLINK_TRAINING" THEN { SimCalm, SimBlink }
               ELSE { SimCalm, SimTurned },
           ready : { FALSE }, d : { FaceCentred } ]
    ELSE [ s : { SimCalm }, ready : BOOLEAN,
           d : IF e = "BLINK_TRAINING" THEN { FaceCentred, FaceBlink }
               ELSE { FaceCentred, NoFace } ]

\* For the tracker with its two sources in turn: ticks at rest and blinking;
\* a face at rest, a blink, no face, a detector error
SourceInputs(m) ==
    IF m = "DEMO"
    THEN [ s : { SimCalm, SimBlink }, ready : { FALSE }, d : { FaceCentred } ]
    ELSE [ s : { SimCalm }, ready : BOOLEAN,
           d : { FaceCentred, FaceBlink, NoFace, DetectorError } ]

\* For the range of the gaze: the ticks of GazeSims; a face with its nose at
\* the right lower corner of the image, no face
GazeInputs(m) ==
    IF m = "DEMO"
    THEN [ s : GazeSims, ready : { FALSE }, d : { FaceCentred } ]
    ELSE [ s : { SimCalm }, ready : BOOLEAN, d : { FaceRightEdge, NoFace } ]

\* For the tracker alone: every tick and every detector result above
FrameInputs(m) ==
    IF m = "DEMO"
    THEN [ s : FrameSims, ready : { FALSE }, d : { FaceCentred } ]
    ELSE [ s : { SimCalm }, ready : BOOLEAN,
           d : { FaceCentred, FaceBlink, FaceShut, FaceWink, NoFace,
                 DetectorError } ]

----------------------------------------------------------------------------
(* Timers of RehabExercise.tsx, on a clock of ClockStepMs per step *)

GAME_LOOP_MS == 100
TIMER_MS     == 1000
THROTTLE_MS  == 32

ClockStepMs == GAME_LOOP_MS
GameSteps   == GAME_LOOP_MS \div ClockStepMs
TimerSteps  == TIMER_MS \div ClockStepMs

----------------------------------------------------------------------------
(* State after mount *)

\* App.tsx: the mode, the exercise and the profile chosen before launch (the
\* profile is chosen in the DEMO launch panel and is HEALTHY otherwise).
\* durations: the values of the prop durationSeconds; App.tsx passes 60, the
\* model runs sessions of a few seconds
InitApp(durations) ==
    /\ mode \in Modes
    /\ exerciseType \in Exercises
    /\ durationSeconds \in durations
    /\ currentView = "REHAB"
    /\ demoState \in Profiles
    /\ mode = "REAL" => demoState = "HEALTHY"

InitRehab ==
    /\ isPlaying = FALSE
    /\ isFinished = FALSE
    /\ timeLeft = durationSeconds
    /\ score = 0
    /\ sessionBlinks = 0
    /\ headStabilityScore = 10000
    /\ timerElapsed = 0
    /\ gameElapsed = 0

InitTracker ==
    /\ faceData = DEFAULT_FACE_DATA
    /\ blinkCount = 0
    /\ videoStream = FALSE
    /\ permissionError = FALSE
    /\ frameId = FALSE
    /\ loopEnv = << >>
    /\ strayFrames = 0
    /\ lastBlinkState = FALSE
    /\ prevDataRef = DEFAULT_FACE_DATA
    /\ videoIsNew = TRUE
    /\ sinceLastProcess = THROTTLE_MS
    /\ cameraPending = 0
    /\ openStreams = 0
    /\ srcObject = "none"

\* no run of loop observed yet
NoTick == [ path |-> "none", d |-> FaceCentred ]

\* Assessment.tsx: STEPS, the duration of each step in seconds
STEPS == << 5, 3, 10, 8, 8, 3 >>
\* STEPS.length - 1
LastStep == Len(STEPS) - 1
\* STEPS[i]?.duration || 0
stepDuration(i) == IF i + 1 \in DOMAIN STEPS THEN STEPS[i + 1] ELSE 0

\* Assessment after construction
InitAssessment ==
    /\ stepIndex = 0
    /\ stepTimeLeft = stepDuration(0)
    /\ stepElapsed = 0
    /\ completionTimers = 0
    /\ completions = 0

\* aiEngine.ts at module scope, after import: no model, no load
NoLoads == [ forVisionTasks |-> 0, createFromOptions |-> 0 ]
InitModel ==
    /\ faceLandmarker = FALSE
    /\ isModelLoading = FALSE
    /\ modelLoads = NoLoads
    /\ lastLoad = "none"
    /\ trackerMounts = 0

InitProbe ==
    /\ windowMs = -1
    /\ windowFrames = 0
    /\ steadyInput = FaceCentred
    /\ steadyStart = DEFAULT_FACE_DATA
    /\ steadyTicks = 0
    /\ lastTick = NoTick
    /\ InitAssessment
    /\ InitModel

InitHistory ==
    /\ sessionLastBlink = FALSE
    /\ sinceScoreTick = 0
    /\ pauses = 0
    /\ InitProbe

Init ==
    /\ InitApp(1..MaxDuration)
    /\ InitRehab
    /\ InitTracker
    /\ InitHistory

----------------------------------------------------------------------------
(* useFaceTracker: loop, aiEngine.ts *)

\* the blink flag taken for its rising edge (a seeded fault)
isBlinkFlag(blink, last) == blink
\* the rising edge of the blink flag
isRisingEdge(blink, last) == blink /\ ~last

\* setBlinkCount(prev => prev + 1) on a rising edge
countBlink(count, blink, last) ==
    IF isRisingEdge(blink, last) THEN count + 1 ELSE count

\* the throttle left out (a seeded fault)
neverThrottled(m, elapsed) == FALSE
\* the throttle of loop; elapsed = time - lastProcessTimeRef.current
isThrottled(m, elapsed) == m = "REAL" /\ elapsed < THROTTLE_MS

\* the path one run of loop takes through loop and processFrame: the
\* throttle's early return, simulateData, or one of the returns of
\* processFrame ("error", "face" and "noface" are the detector's outcomes)
loopPath(m, elapsed, ready, advanced, d) ==
    IF isThrottled(m, elapsed) THEN "throttled"
    ELSE IF m # "REAL" THEN "synthetic"
    ELSE IF ~ready THEN "notready"
    ELSE IF ~advanced THEN "duplicate"
    ELSE d.outcome

\* loop returning without a request after the detector threw (a seeded
\* fault)
stopsAfterError(path) == path # "error"
\* whether loop calls requestAnimationFrame(loop) on this path: both the
\* throttle's return and the end of loop do, and processFrame throws nothing
requestsNextFrame(path) == TRUE

\* one run of loop, the pending callback, at an animation frame dt ms after
\* the previous one; mode and demoProfile are those it closes over
Loop(dt, in) ==
    /\ frameId
    /\ LET since == Min(sinceLastProcess + dt, THROTTLE_MS)
           loopMode == loopEnv[1].mode
           path  == loopPath(loopMode, since, in.ready, videoIsNew, in.d)
       IN
       /\ frameId' = requestsNextFrame(path)
       /\ loopEnv' = IF frameId' THEN loopEnv ELSE << >>
       \* the callback that runs is no longer pending when it requests the next
       /\ strayFrames' = strayFrames
       /\ IF path = "throttled"
          THEN /\ sinceLastProcess' = since
               /\ UNCHANGED << propVars, sessionVars, timerVars, cameraVars,
                               faceData, blinkCount, lastBlinkState, prevDataRef,
                               videoIsNew, sessionLastBlink, sinceScoreTick,
                               pauses >>
          ELSE /\ in.ready => srcObject # "none"
               /\ LET data  == IF loopMode = "REAL"
                               THEN processFrame(in.ready, videoIsNew, in.d, prevDataRef)
                               ELSE SimFrame[loopEnv[1].demoProfile][in.s]
                      isNew == IF loopMode = "REAL"
                               THEN processFrameIsNewObject(in.ready, videoIsNew, in.d)
                               ELSE TRUE
                      count == countBlink(blinkCount, data.blinkDetected, lastBlinkState)
                      synced == IF isPlaying THEN count ELSE sessionBlinks
                  IN  /\ count <= MaxBlinks
                      /\ sinceLastProcess' = 0
                      /\ videoIsNew' = IF loopMode = "REAL" /\ in.ready THEN FALSE ELSE videoIsNew
                      /\ prevDataRef' = data
                      /\ blinkCount' = count
                      /\ lastBlinkState' = data.blinkDetected
                      /\ faceData' = data
                      \* Sync blink count effect
                      /\ sessionBlinks' = synced
                      \* Main Game Loop effect: faceData or sessionBlinks changed,
                      \* so the interval is cleared and set again
                      /\ gameElapsed' = IF isNew \/ synced # sessionBlinks
                                        THEN 0 ELSE gameElapsed
                      /\ sessionLastBlink' = data.blinkDetected
                      /\ UNCHANGED << propVars, isPlaying, isFinished, timeLeft, score,
                                      headStabilityScore, demoState,
                                      timerElapsed, cameraVars,
                                      sinceScoreTick, pauses >>

\* the camera delivers a new video frame
VideoFrame ==
    /\ srcObject = "live"
    /\ ~videoIsNew
    /\ videoIsNew' = TRUE
    /\ UNCHANGED << propVars, sessionVars, timerVars, cameraVars, frameId, loopEnv, strayFrames,
                    faceData, blinkCount, lastBlinkState, prevDataRef,
                    sinceLastProcess, historyVars >>

\* the capture stream ends by itself (camera unplugged, permission revoked):
\* the tracks of the stream held in videoStream fire 'ended'.  No code of the
\* repository listens to it, so no state of the program changes; the video
\* element gets no more frames
StreamEnds ==
    /\ videoStream
    /\ srcObject = "live"
    /\ srcObject' = "ended"
    /\ UNCHANGED << propVars, sessionVars, timerVars, videoStream, permissionError,
                    cameraPending, openStreams, frameId, loopEnv, strayFrames, frameVars,
                    historyVars >>

\* the stream held by the tracker has ended
streamExhausted == videoStream /\ srcObject = "ended"

\* getUserMedia resolves: the rest of startCamera, then the MAIN LOOP effect
CameraGranted ==
    /\ cameraPending > 0
    /\ RunMainLoopEffect(isPlaying, mode, demoState,
           [Camera EXCEPT !.cameraPending = @ - 1, !.videoStream = TRUE,
                          !.openStreams = @ + 1, !.srcObject = "live",
                          !.permissionError = FALSE])
    /\ UNCHANGED << propVars, sessionVars, timerVars, frameVars, historyVars >>

\* getUserMedia rejects: the catch of startCamera, then the MAIN LOOP effect
CameraDenied ==
    /\ cameraPending > 0
    /\ RunMainLoopEffect(isPlaying, mode, demoState,
           [Camera EXCEPT !.cameraPending = @ - 1, !.permissionError = TRUE])
    /\ UNCHANGED << propVars, sessionVars, timerVars, frameVars, historyVars >>


----------------------------------------------------------------------------
(* RehabExercise.tsx: togglePlay, restartSession, the timers *)

\* restartSession with setBlinkCount(0) left out (a seeded fault)
restartKeepingBlinks ==
    /\ isFinished' = FALSE
    /\ isPlaying' = FALSE
    /\ timeLeft' = durationSeconds
    /\ score' = 0
    /\ sessionBlinks' = 0
    /\ headStabilityScore' = 10000
    /\ sessionLastBlink' = FALSE
    /\ sinceScoreTick' = 0
    /\ pauses' = 0
    /\ UNCHANGED << propVars, demoState, timerVars, cameraVars, blinkCount,
                    frameId, loopEnv, strayFrames, faceData, lastBlinkState, prevDataRef, videoIsNew,
                    sinceLastProcess, probeVars >>

\* restartSession
restartSession ==
    /\ isFinished' = FALSE
    /\ isPlaying' = FALSE
    /\ timeLeft' = durationSeconds
    /\ score' = 0
    /\ blinkCount' = 0
    /\ sessionBlinks' = 0
    /\ headStabilityScore' = 10000
    /\ sessionLastBlink' = FALSE
    /\ sinceScoreTick' = 0
    /\ pauses' = 0
    /\ UNCHANGED << propVars, demoState, timerVars, cameraVars,
                    frameId, loopEnv, strayFrames, faceData, lastBlinkState, prevDataRef, videoIsNew,
                    sinceLastProcess, probeVars >>

\* setIsPlaying with a setBlinkCount(0) at every start and resume (a seeded
\* fault)
setIsPlayingClearing(playing) ==
    /\ isPlaying' = playing
    /\ RunMainLoopEffect(playing, mode, demoState, Camera)
    /\ blinkCount' = IF playing THEN 0 ELSE blinkCount
    /\ sessionBlinks' = IF playing THEN 0 ELSE sessionBlinks
    /\ timerElapsed' = 0
    /\ gameElapsed' = 0
    /\ sinceScoreTick' = 0
    /\ pauses' = IF playing THEN pauses ELSE pauses + 1
    /\ UNCHANGED << propVars, isFinished, timeLeft, score, headStabilityScore,
                    demoState, faceData, lastBlinkState, prevDataRef, videoIsNew,
                    sinceLastProcess, sessionLastBlink, probeVars >>

\* setIsPlaying(!isPlaying) and the effects that depend on isPlaying
setIsPlaying(playing) ==
    /\ isPlaying' = playing
    /\ RunMainLoopEffect(playing, mode, demoState, Camera)
    \* Sync blink count effect
    /\ sessionBlinks' = IF playing THEN blinkCount ELSE sessionBlinks
    \* Timer Logic and Main Game Loop effects: intervals set or cleared
    /\ timerElapsed' = 0
    /\ gameElapsed' = 0
    /\ sinceScoreTick' = 0
    /\ pauses' = IF playing THEN pauses ELSE pauses + 1
    /\ UNCHANGED << propVars, isFinished, timeLeft, score, headStabilityScore,
                    demoState, frameVars, sessionLastBlink, probeVars >>

togglePlay ==
    IF isFinished THEN restartSession
    ELSE setIsPlaying(~isPlaying)

\* the Start / Resume button of the overlay and the Pause button
ClickTogglePlay ==
    /\ ~isFinished
    /\ isPlaying => pauses < MaxPauses
    /\ togglePlay

\* the restart button of the report card
ClickRestart ==
    /\ isFinished
    /\ restartSession

\* finishSession with setIsPlaying(false) left out, and with
\* setIsFinished(true) left out (seeded faults)
finishSessionStillPlaying ==
    /\ isPlaying' = isPlaying
    /\ isFinished' = TRUE
    /\ RunMainLoopEffect(isPlaying, mode, demoState, Camera)
finishSessionNotFlagged ==
    /\ isPlaying' = FALSE
    /\ isFinished' = isFinished
    /\ RunMainLoopEffect(FALSE, mode, demoState, Camera)

\* finishSession, called from the countdown
finishSession ==
    /\ isPlaying' = FALSE
    /\ isFinished' = TRUE
    /\ RunMainLoopEffect(FALSE, mode, demoState, Camera)

\* the countdown's updater returning prev, and returning prev - 2 (seeded
\* faults)
heldTimeLeft(prev) == prev
skipTimeLeft(prev) == IF prev <= 1 THEN 0 ELSE Max(0, prev - 2)

\* the value the countdown's updater returns
nextTimeLeft(prev) == IF prev <= 1 THEN 0 ELSE prev - 1

\* Timer Logic: the 1000 ms interval fires
TimerTick ==
    /\ isPlaying /\ ~isFinished
    /\ timerElapsed = TimerSteps
    /\ timeLeft' = nextTimeLeft(timeLeft)
    /\ IF timeLeft <= 1
       THEN /\ finishSession
            /\ gameElapsed' = 0
       ELSE UNCHANGED << isPlaying, isFinished, cameraVars, frameId, loopEnv, strayFrames, gameElapsed >>
    /\ timerElapsed' = 0
    /\ UNCHANGED << propVars, score, sessionBlinks, headStabilityScore, demoState,
                    frameVars, historyVars >>

\* HEAD_STABILITY scoring: the updaters of the two branches
isUnstable(data) == Abs(data.yaw) + Abs(data.pitch) > 5000
\* prev - 0.2 without Math.max(0, ...) (a seeded fault)
stabilityDownUnclamped(prev) == prev - 20
stabilityDown(prev) == Max(0, prev - 20)
\* the recovery as fast as the decay (a seeded fault)
stabilityUpFast(prev) == Min(10000, prev + 20)
stabilityUp(prev)   == Min(10000, prev + 5)

\* FOLLOW_DOT scoring
dotScore(s, data) == IF data.confidence > 500 THEN s + 1 ELSE s

\* Main Game Loop: the 100 ms interval fires
GameTick ==
    /\ isPlaying /\ ~isFinished
    /\ gameElapsed = GameSteps
    /\ IF exerciseType = "FOLLOW_DOT"
       THEN /\ score' = dotScore(score, faceData)
            /\ UNCHANGED headStabilityScore
       ELSE IF exerciseType = "BLINK_TRAINING"
       THEN /\ score' = sessionBlinks
            /\ UNCHANGED headStabilityScore
       ELSE /\ headStabilityScore' = IF isUnstable(faceData)
                                     THEN stabilityDown(headStabilityScore)
                                     ELSE stabilityUp(headStabilityScore)
            /\ UNCHANGED score
    /\ gameElapsed' = 0
    /\ sinceScoreTick' = 0
    /\ UNCHANGED << propVars, isPlaying, isFinished, timeLeft, sessionBlinks,
                    demoState, timerElapsed, frameVars, cameraVars, frameId, loopEnv, strayFrames,
                    sessionLastBlink, pauses, probeVars >>

\* 100 ms pass with no interval due
Advance ==
    /\ isPlaying /\ ~isFinished
    /\ timerElapsed < TimerSteps
    /\ gameElapsed < GameSteps
    /\ timerElapsed' = timerElapsed + 1
    /\ gameElapsed' = gameElapsed + 1
    /\ sinceScoreTick' = Min(sinceScoreTick + 1, 2 * GameSteps + 1)
    /\ UNCHANGED << propVars, sessionVars, frameVars, cameraVars, frameId, loopEnv, strayFrames,
                    sessionLastBlink, pauses, probeVars >>

\* Demo Controls of the report card: setDemoState(s)
SetDemoState(s) ==
    /\ isFinished /\ mode = "DEMO"
    /\ s # demoState
    /\ demoState' = s
    /\ RunMainLoopEffect(isPlaying, mode, s, Camera)
    /\ UNCHANGED << propVars, isPlaying, isFinished, timeLeft, score, sessionBlinks,
                    headStabilityScore, timerVars, frameVars, historyVars >>

\* Mode Toggle of App.tsx: setRehabMode(m)
SetRehabMode(m) ==
    /\ m # mode
    /\ mode' = m
    /\ RunMainLoopEffect(isPlaying, m, demoState, Camera)
    /\ UNCHANGED << exerciseType, durationSeconds, currentView, sessionVars,
                    timerVars, frameVars, historyVars >>

\* milliseconds between two animation ticks fed to the throttle
TickDeltas == { 16, 31, 32 }

\* an animation frame of the tracker, measured: a processed tick (one that
\* sets lastProcessTimeRef) opens the measuring window, or is counted in the
\* open one, or opens it again
MeasuredFrame ==
    \E dt \in TickDeltas : \E in \in SessionInputs(mode, exerciseType) :
        /\ Loop(dt, in)
        /\ IF sinceLastProcess' # 0
           THEN /\ windowMs' = IF windowMs < 0 THEN windowMs ELSE windowMs + dt
                /\ windowFrames' = windowFrames
           ELSE \/ /\ windowMs' = 0
                   /\ windowFrames' = 0
                \/ /\ windowMs >= 0
                   /\ windowFrames < MaxWindowFrames
                   /\ windowMs' = windowMs + dt
                   /\ windowFrames' = windowFrames + 1
        /\ UNCHANGED << steadyInput, steadyStart, steadyTicks, lastTick,
                        assessVars, modelVars >>

\* an animation frame of a steady run: the detector sees a new video frame
\* and returns steadyInput once more
SteadyFrame ==
    /\ steadyTicks < MaxSteadyTicks
    /\ videoIsNew
    /\ Loop(THROTTLE_MS, [ s |-> SimCalm, ready |-> TRUE, d |-> steadyInput ])
    /\ steadyTicks' = steadyTicks + 1
    /\ UNCHANGED << windowMs, windowFrames, steadyInput, steadyStart, lastTick,
                    assessVars, modelVars >>

\* App.tsx, a navigation button: setCurrentView leaves the REHAB view and
\* RehabExercise unmounts.  The cleanups of its effects run: the two
\* intervals are cleared and the MAIN LOOP effect's cleanup cancels the
\* pending animation frame; it does not call stopCamera.  The component's
\* state and refs are gone (shown as their values after construction); an
\* acquired stream and a getUserMedia call in flight are not
NavLeave ==
    /\ currentView = "REHAB"
    /\ currentView' = "HOME"
    /\ frameId' = FALSE
    /\ loopEnv' = << >>
    /\ strayFrames' = strayFrames
    /\ timerElapsed' = 0
    /\ gameElapsed' = 0
    /\ isPlaying' = FALSE
    /\ isFinished' = FALSE
    /\ timeLeft' = durationSeconds
    /\ score' = 0
    /\ sessionBlinks' = 0
    /\ headStabilityScore' = 10000
    /\ faceData' = DEFAULT_FACE_DATA
    /\ blinkCount' = 0
    /\ lastBlinkState' = FALSE
    /\ prevDataRef' = DEFAULT_FACE_DATA
    /\ videoIsNew' = TRUE
    /\ sinceLastProcess' = THROTTLE_MS
    /\ videoStream' = FALSE
    /\ permissionError' = FALSE
    /\ srcObject' = "none"
    /\ sessionLastBlink' = FALSE
    /\ sinceScoreTick' = 0
    /\ pauses' = 0
    /\ UNCHANGED << mode, exerciseType, durationSeconds, demoState,
                    cameraPending, openStreams, probeVars >>

\* getUserMedia resolves after the unmount: setVideoStream on the unmounted
\* component sets nothing and videoRef.current is null; the stream is live
GrantedAfterLeave ==
    /\ currentView = "HOME"
    /\ cameraPending > 0
    /\ cameraPending' = cameraPending - 1
    /\ openStreams' = openStreams + 1
    /\ UNCHANGED << propVars, sessionVars, timerVars, frameVars, frameId, loopEnv, strayFrames,
                    videoStream, permissionError, srcObject, historyVars >>

\* getUserMedia rejects after the unmount
DeniedAfterLeave ==
    /\ currentView = "HOME"
    /\ cameraPending > 0
    /\ cameraPending' = cameraPending - 1
    /\ UNCHANGED << propVars, sessionVars, timerVars, frameVars, frameId, loopEnv, strayFrames,
                    videoStream, permissionError, openStreams, srcObject,
                    historyVars >>

\* an animation frame of a session; frames THROTTLE_MS apart are all processed
SessionFrame ==
    /\ \E in \in SessionInputs(mode, exerciseType) : Loop(THROTTLE_MS, in)
    /\ UNCHANGED probeVars

\* one run of loop, observed: the path it took is recorded, and on the path
\* of a detected face the detection it read
ObserveLoop(dt, in) ==
    /\ Loop(dt, in)
    /\ LET path == loopPath(loopEnv[1].mode,
                            Min(sinceLastProcess + dt, THROTTLE_MS),
                            in.ready, videoIsNew, in.d)
       IN  lastTick' = [ path |-> path,
                         d    |-> IF path = "face" THEN in.d ELSE FaceCentred ]
    /\ UNCHANGED << windowMs, windowFrames, steadyInput, steadyStart,
                    steadyTicks, assessVars, modelVars >>

\* an animation frame of the tracker, observed, any time after the previous
\* one: on every tick and detector result of FrameInputs
ObservedFrame ==
    \E dt \in FrameDeltas : \E in \in FrameInputs(mode) : ObserveLoop(dt, in)

\* ... and on those of SourceInputs
SourceFrame ==
    \E dt \in FrameDeltas : \E in \in SourceInputs(mode) : ObserveLoop(dt, in)

\* ... and on those of GazeInputs
GazeFrame ==
    \E dt \in FrameDeltas : \E in \in GazeInputs(mode) : ObserveLoop(dt, in)

\* useFaceTracker is rendered with another demoProfile, its third parameter
\* (RehabExercise passes demoState, which its profile buttons set)
SetDemoProfile(s) ==
    /\ s # demoState
    /\ demoState' = s
    /\ RunMainLoopEffect(isPlaying, mode, s, Camera)
    /\ UNCHANGED << propVars, isPlaying, isFinished, timeLeft, score, sessionBlinks,
                    headStabilityScore, timerVars, frameVars, historyVars >>

\* an animation frame of the tracker, any time after the previous one
TrackerFrame ==
    /\ \E dt \in FrameDeltas : \E in \in FrameInputs(mode) : Loop(dt, in)
    /\ UNCHANGED probeVars

----------------------------------------------------------------------------
(* setupModel, aiEngine.ts.  A call runs to its first await in one piece   *)
(* (the guard, the flag, the call of forVisionTasks); each of its two      *)
(* awaits resumes it in a later task                                        *)

\* the guard with the flag left out (a seeded fault)
modelGuardLoadedOnly(loaded, loading) == loaded
\* if (faceLandmarker || isModelLoading) return
modelGuard(loaded, loading) == loaded \/ loading

loadsInFlight == modelLoads.forVisionTasks + modelLoads.createFromOptions

\* setupModel(), up to await FilesetResolver.forVisionTasks(...)
SetupModel ==
    IF modelGuard(faceLandmarker, isModelLoading)
    THEN UNCHANGED << isModelLoading, modelLoads >>
    ELSE /\ isModelLoading' = TRUE
         /\ modelLoads' = [modelLoads EXCEPT !.forVisionTasks = @ + 1]

\* App.tsx, the launch form submitted with sessionType REHAB:
\* setCurrentView(REHAB) mounts RehabExercise, not playing, and its tracker,
\* whose mount effect calls setupModel()
LaunchRehab ==
    /\ currentView = "HOME"
    /\ trackerMounts < MaxMounts
    /\ currentView' = "REHAB"
    /\ trackerMounts' = trackerMounts + 1
    /\ SetupModel
    /\ UNCHANGED << mode, exerciseType, durationSeconds, sessionVars, timerVars,
                    cameraVars, frameId, loopEnv, strayFrames, frameVars,
                    sessionLastBlink, sinceScoreTick, pauses, windowMs,
                    windowFrames, steadyInput, steadyStart, steadyTicks,
                    lastTick, assessVars, faceLandmarker, lastLoad >>

\* what no step of a model load touches
loadFrame == << propVars, sessionVars, timerVars, cameraVars, frameId, loopEnv,
                strayFrames, frameVars, sessionLastBlink, sinceScoreTick,
                pauses, windowMs, windowFrames, steadyInput, steadyStart,
                steadyTicks, lastTick, assessVars, trackerMounts >>

\* forVisionTasks resolves: createFromOptions is called and awaited
VisionResolved ==
    /\ modelLoads.forVisionTasks > 0
    /\ modelLoads' = [modelLoads EXCEPT !.forVisionTasks = @ - 1,
                                        !.createFromOptions = @ + 1]
    /\ UNCHANGED << loadFrame, faceLandmarker, isModelLoading, lastLoad >>

\* forVisionTasks rejects: catch logs the error, finally clears the flag
VisionFailed ==
    /\ modelLoads.forVisionTasks > 0
    /\ modelLoads' = [modelLoads EXCEPT !.forVisionTasks = @ - 1]
    /\ isModelLoading' = FALSE
    /\ lastLoad' = "failed"
    /\ UNCHANGED << loadFrame, faceLandmarker >>

\* createFromOptions resolves: faceLandmarker is assigned, finally clears
\* the flag
ModelCreated ==
    /\ modelLoads.createFromOptions > 0
    /\ modelLoads' = [modelLoads EXCEPT !.createFromOptions = @ - 1]
    /\ faceLandmarker' = TRUE
    /\ isModelLoading' = FALSE
    /\ lastLoad' = "loaded"
    /\ UNCHANGED loadFrame

\* createFromOptions rejects: the assignment does not happen
CreateFailed ==
    /\ modelLoads.createFromOptions > 0
    /\ modelLoads' = [modelLoads EXCEPT !.createFromOptions = @ - 1]
    /\ isModelLoading' = FALSE
    /\ lastLoad' = "failed"
    /\ UNCHANGED << loadFrame, faceLandmarker >>

----------------------------------------------------------------------------
(* Assessment.tsx: the step timer effect and its tracker,                  *)
(* useFaceTracker(mode, true).  The state score of Assessment is written   *)
(* by the interval and read nowhere; it is left out                        *)

\* For the assessment: a tick at rest; a face at rest, no face
AssessInputs(m) ==
    IF m = "DEMO"
    THEN [ s : { SimCalm }, ready : { FALSE }, d : { FaceCentred } ]
    ELSE [ s : { SimCalm }, ready : BOOLEAN, d : { FaceCentred, NoFace } ]

\* the step timer effect, run after a change of stepIndex (now idx) or of
\* faceData: on the last step it sets a timeout of 3000 ms that calls
\* onComplete and returns no cleanup; on the others its cleanup has cleared
\* the interval of 1000 ms and it sets a new one
RunStepTimerEffect(idx) ==
    IF idx >= LastStep
    THEN /\ completionTimers < MaxTimeouts
         /\ completionTimers' = completionTimers + 1
         /\ stepElapsed' = 0
    ELSE /\ stepElapsed' = 0
         /\ UNCHANGED completionTimers

\* an animation frame of the assessment's tracker; frames THROTTLE_MS apart
\* are all processed.  setFaceData with a new object renders Assessment and
\* runs the step timer effect, of which faceData is a dependency
AssessFrame ==
    /\ currentView = "ASSESSMENT"
    /\ \E in \in AssessInputs(mode) :
          /\ Loop(THROTTLE_MS, in)
          /\ IF mode = "REAL" /\ ~processFrameIsNewObject(in.ready, videoIsNew, in.d)
             THEN UNCHANGED << stepElapsed, completionTimers >>
             ELSE RunStepTimerEffect(stepIndex)
    /\ UNCHANGED << windowMs, windowFrames, steadyInput, steadyStart, steadyTicks,
                    lastTick, stepIndex, stepTimeLeft, completions, modelVars >>

\* 100 ms pass with the step timer's interval not due
AssessAdvance ==
    /\ currentView = "ASSESSMENT"
    /\ stepIndex < LastStep
    /\ stepElapsed < TimerSteps
    /\ stepElapsed' = stepElapsed + 1
    /\ UNCHANGED << propVars, sessionVars, timerVars, cameraVars, frameId, loopEnv,
                    strayFrames, frameVars, sessionLastBlink, sinceScoreTick,
                    pauses, windowMs, windowFrames, steadyInput, steadyStart,
                    steadyTicks, lastTick, stepIndex, stepTimeLeft,
                    completionTimers, completions, modelVars >>

\* the step timer's interval of 1000 ms fires: the updater of setTimeLeft
\* counts down, or calls setStepIndex(s => s + 1) and returns the next step's
\* duration; the change of stepIndex runs the step timer effect
StepTick ==
    /\ currentView = "ASSESSMENT"
    /\ stepIndex < LastStep
    /\ stepElapsed = TimerSteps
    /\ IF stepTimeLeft <= 1
       THEN /\ stepIndex' = stepIndex + 1
            /\ stepTimeLeft' = stepDuration(stepIndex + 1)
            /\ RunStepTimerEffect(stepIndex + 1)
       ELSE /\ stepTimeLeft' = stepTimeLeft - 1
            /\ stepElapsed' = 0
            /\ UNCHANGED << stepIndex, completionTimers >>
    /\ UNCHANGED << propVars, sessionVars, timerVars, cameraVars, frameId, loopEnv,
                    strayFrames, frameVars, sessionLastBlink, sinceScoreTick,
                    pauses, windowMs, windowFrames, steadyInput, steadyStart,
                    steadyTicks, lastTick, completions, modelVars >>

\* a completion timeout fires: onComplete, which is handleAssessmentComplete
\* of App.tsx, calls setCurrentView(ANALYTICS).  If Assessment was mounted it
\* unmounts: the cleanups clear the interval and cancel the animation frame;
\* the other timeouts stay set.  The 3000 ms are not measured: a timeout fires
\* at some step after it was set
CompletionFires ==
    /\ completionTimers > 0
    /\ completionTimers' = completionTimers - 1
    /\ completions' = completions + 1
    /\ currentView' = "ANALYTICS"
    /\ frameId' = FALSE
    /\ loopEnv' = << >>
    /\ UNCHANGED << mode, exerciseType, durationSeconds, sessionVars, timerVars,
                    cameraVars, strayFrames, frameVars, sessionLastBlink,
                    sinceScoreTick, pauses, windowMs, windowFrames, steadyInput,
                    steadyStart, steadyTicks, lastTick, stepIndex, stepTimeLeft,
                    stepElapsed, modelVars >>

\* getUserMedia of the assessment's tracker resolves: the rest of startCamera,
\* then the MAIN LOOP effect with active = true
AssessCameraGranted ==
    /\ currentView = "ASSESSMENT"
    /\ cameraPending > 0
    /\ RunMainLoopEffect(TRUE, mode, demoState,
           [Camera EXCEPT !.cameraPending = @ - 1, !.videoStream = TRUE,
                          !.openStreams = @ + 1, !.srcObject = "live",
                          !.permissionError = FALSE])
    /\ UNCHANGED << propVars, sessionVars, timerVars, frameVars, historyVars >>

----------------------------------------------------------------------------
(* Specifications *)

\* Sessions: every exercise, mode and profile; start, pause, resume, the two
\* timers, frames, finish, the report card's profile buttons, restart
Next ==
    \/ ClickTogglePlay
    \/ ClickRestart
    \/ TimerTick
    \/ GameTick
    \/ Advance
    \/ SessionFrame
    \/ \E s \in Profiles : SetDemoState(s)
    \/ VideoFrame
    \/ CameraGranted
    \/ CameraDenied

Spec == Init /\ [][Next]_vars

\* The countdown: BLINK_TRAINING sessions of 1..MaxCountdown seconds.  The
\* browser runs a due interval callback and lets time pass: weak fairness of
\* the two timers and of the clock
InitCountdown ==
    /\ InitApp(1..MaxCountdown)
    /\ exerciseType = "BLINK_TRAINING"
    /\ demoState = "HEALTHY"
    /\ InitRehab
    /\ InitTracker
    /\ InitHistory

SpecCountdown ==
    /\ InitCountdown
    /\ [][Next]_vars
    /\ WF_vars(Advance)
    /\ WF_vars(GameTick)
    /\ WF_vars(TimerTick)

\* the header's Mode Toggle, pressed while the report card is shown
ReportModeToggle == \E m \in Modes : isFinished /\ SetRehabMode(m)

\* One session up to its report card, where the profile buttons and the
\* header's Mode Toggle are pressed
NextReport ==
    \/ ClickTogglePlay
    \/ TimerTick
    \/ GameTick
    \/ Advance
    \/ SessionFrame
    \/ \E s \in Profiles : SetDemoState(s)
    \/ ReportModeToggle
    \/ VideoFrame
    \/ CameraGranted
    \/ CameraDenied

SpecReport == Init /\ [][NextReport]_vars

\* HEAD_STABILITY late in a long session: a paused DEMO session whose score
\* has moved to one of StabilityLevels.  Every multiple of 0.05 in [0, 100]
\* is reached by enough unstable ticks followed by stable ones (a resume
\* re-arms the countdown, so pauses allow any number of ticks)
StabilityLevels == { 5, 15, 9990, 9995 }

InitStability ==
    /\ mode = "DEMO"
    /\ exerciseType = "HEAD_STABILITY"
    /\ durationSeconds \in 1..MaxDuration
    /\ currentView = "REHAB"
    /\ demoState \in Profiles
    /\ isPlaying = FALSE
    /\ isFinished = FALSE
    /\ timeLeft = durationSeconds
    /\ score = 0
    /\ sessionBlinks = 0
    /\ headStabilityScore \in StabilityLevels
    /\ timerElapsed = 0
    /\ gameElapsed = 0
    /\ \E s \in { SimCalm, SimTurned } :
          /\ faceData = SimFrame[demoState][s]
          /\ prevDataRef = SimFrame[demoState][s]
    /\ blinkCount = 0
    /\ videoStream = FALSE
    /\ permissionError = FALSE
    /\ frameId = FALSE
    /\ loopEnv = << >>
    /\ strayFrames = 0
    /\ lastBlinkState = FALSE
    /\ videoIsNew = TRUE
    /\ sinceLastProcess = 0
    /\ cameraPending = 0
    /\ openStreams = 0
    /\ srcObject = "none"
    /\ InitHistory

NextStability ==
    \/ ClickTogglePlay
    \/ ClickRestart
    \/ TimerTick
    \/ GameTick
    \/ Advance
    \/ SessionFrame
    \/ \E s \in Profiles : SetDemoState(s)

SpecStability == InitStability /\ [][NextStability]_vars

\* The tracker alone, on either source: activation and deactivation, the
\* camera, frames of every kind; the session's timers do not run
NextFrames ==
    \/ ClickTogglePlay
    \/ TrackerFrame
    \/ VideoFrame
    \/ CameraGranted
    \/ CameraDenied

SpecFrames == Init /\ [][NextFrames]_vars

\* the header's DEMO button, pressed at any time
SwitchToDemo == SetRehabMode("DEMO")

\* BLINK_TRAINING sessions as in Spec, with the header's DEMO button and the
\* navigation buttons, which unmount the exercise; the handlers of
\* RehabExercise and of its tracker run while it is mounted
InitLeave ==
    /\ Init
    /\ exerciseType = "BLINK_TRAINING"

NextLeave ==
    \/ currentView = "REHAB" /\ ClickTogglePlay
    \/ currentView = "REHAB" /\ ClickRestart
    \/ currentView = "REHAB" /\ TimerTick
    \/ currentView = "REHAB" /\ GameTick
    \/ currentView = "REHAB" /\ Advance
    \/ currentView = "REHAB" /\ SessionFrame
    \/ currentView = "REHAB" /\ \E s \in Profiles : SetDemoState(s)
    \/ currentView = "REHAB" /\ SwitchToDemo
    \/ currentView = "REHAB" /\ VideoFrame
    \/ currentView = "REHAB" /\ CameraGranted
    \/ currentView = "REHAB" /\ CameraDenied
    \/ NavLeave
    \/ GrantedAfterLeave
    \/ DeniedAfterLeave

SpecLeave == InitLeave /\ [][NextLeave]_vars

\* The paths of loop: the tracker alone as in SpecFrames, its frames observed
NextPaths ==
    \/ ClickTogglePlay
    \/ ObservedFrame
    \/ VideoFrame
    \/ CameraGranted
    \/ CameraDenied

SpecPaths == Init /\ [][NextPaths]_vars

\* The tracker and its parameters: activation and deactivation, the Mode
\* Toggle and another profile at any time, the camera, observed frames of
\* either source; the session's timers do not run
InitSource ==
    /\ Init
    /\ exerciseType = "BLINK_TRAINING"

NextSource ==
    \/ ClickTogglePlay
    \/ SourceFrame
    \/ \E m \in Modes : SetRehabMode(m)
    \/ \E s \in Profiles : SetDemoProfile(s)
    \/ VideoFrame
    \/ CameraGranted
    \/ CameraDenied

SpecSource == InitSource /\ [][NextSource]_vars

\* The throttle: the tracker on the detector, fed animation ticks
\* TickDeltas apart; activation and deactivation, the camera
InitThrottle ==
    /\ Init
    /\ mode = "REAL"
    /\ exerciseType = "BLINK_TRAINING"

NextThrottle ==
    \/ ClickTogglePlay
    \/ MeasuredFrame
    \/ VideoFrame
    \/ CameraGranted
    \/ CameraDenied

SpecThrottle == InitThrottle /\ [][NextThrottle]_vars

\* A Playing detector session, its camera granted, at the start of a run of
\* ticks that all detect steadyInput, one of inputs; the previous-frame
\* buffer is one of starts.
\* Smoothing: inputs SteadyInputs, starts StartFrames
InitSteady(inputs, starts) ==
    /\ InitApp(1..MaxDuration)
    /\ mode = "REAL"
    /\ exerciseType = "FOLLOW_DOT"
    /\ isPlaying = TRUE
    /\ isFinished = FALSE
    /\ timeLeft = durationSeconds
    /\ score = 0
    /\ sessionBlinks = 0
    /\ headStabilityScore = 10000
    /\ timerElapsed = 0
    /\ gameElapsed = 0
    /\ steadyInput \in inputs
    /\ steadyStart \in starts
    /\ faceData = steadyStart
    /\ prevDataRef = steadyStart
    /\ blinkCount = 0
    /\ videoStream = TRUE
    /\ permissionError = FALSE
    /\ frameId = TRUE
    /\ loopEnv = loopClosure(TRUE, mode, demoState)
    /\ strayFrames = 0
    /\ lastBlinkState = FALSE
    /\ videoIsNew = TRUE
    /\ sinceLastProcess = 0
    /\ cameraPending = 0
    /\ openStreams = 1
    /\ srcObject = "live"
    /\ sessionLastBlink = FALSE
    /\ sinceScoreTick = 0
    /\ pauses = 0
    /\ windowMs = -1
    /\ windowFrames = 0
    /\ steadyTicks = 0
    /\ lastTick = NoTick
    /\ InitAssessment
    /\ InitModel

InitSmoothing == InitSteady(SteadyInputs, StartFrames)

NextSmoothing ==
    \/ SteadyFrame
    \/ VideoFrame

SpecSmoothing == InitSmoothing /\ [][NextSmoothing]_vars

\* Detections: the same run of ticks, begun before any frame was detected,
\* on a head centred, turned or near
InitDetections == InitSteady(FirstInputs, FirstStarts)

SpecDetections == InitDetections /\ [][NextSmoothing]_vars

\* Exhausted: the tracker with the Mode Toggle left alone and a camera whose
\* stream can end
NextExhausted ==
    \/ ClickTogglePlay
    \/ SourceFrame
    \/ VideoFrame
    \/ CameraGranted
    \/ CameraDenied
    \/ StreamEnds

SpecExhausted == InitSource /\ [][NextExhausted]_vars

\* Gaze: the tracker with both sources, every profile and the ticks and
\* detections of GazeInputs
NextGaze ==
    \/ ClickTogglePlay
    \/ GazeFrame
    \/ \E m \in Modes : SetRehabMode(m)
    \/ \E s \in Profiles : SetDemoProfile(s)
    \/ VideoFrame
    \/ CameraGranted

SpecGaze == InitSource /\ [][NextGaze]_vars

\* Start, Pause and Resume pressed before getUserMedia settles: three calls
\* of setIsPlaying in a row.  Both runs of the effect with active = true find
\* videoStream still null and call startCamera, so two calls are in flight,
\* one more than MaxPending; the run with active = false finds no stream to
\* stop
StartPauseResume ==
    /\ ~isFinished /\ ~isPlaying
    /\ pauses < MaxPauses
    /\ effectStartsCamera(TRUE, mode, Camera)
    /\ cameraPending + 2 <= MaxPending + 1
    /\ isPlaying' = TRUE
    /\ cameraPending' = startCamera(startCamera(Camera)).cameraPending
    /\ frameId' = mainLoopEffectFrame(TRUE)
    /\ loopEnv' = loopClosure(mainLoopEffectFrame(TRUE), mode, demoState)
    /\ strayFrames' = strayFrames
    /\ sessionBlinks' = blinkCount
    /\ timerElapsed' = 0
    /\ gameElapsed' = 0
    /\ sinceScoreTick' = 0
    /\ pauses' = pauses + 1
    /\ UNCHANGED << propVars, isFinished, timeLeft, score, headStabilityScore,
                    demoState, videoStream, permissionError, openStreams,
                    srcObject, frameVars, sessionLastBlink, probeVars >>

\* Race: the tracker with its camera, where two acquisitions can be in flight
NextRace ==
    \/ ClickTogglePlay
    \/ StartPauseResume
    \/ \E m \in Modes : SetRehabMode(m)
    \/ \E s \in Profiles : SetDemoProfile(s)
    \/ CameraGranted
    \/ CameraDenied

SpecRace == InitSource /\ [][NextRace]_vars

\* Assessment: App shows the Assessment view, just mounted.  RehabExercise is
\* not mounted (its state is shown as after construction); the tracker is
\* the assessment's, active with the default profile, its MAIN LOOP effect
\* has run: loop is requested and, on the detector, getUserMedia is called
InitAssess ==
    /\ mode \in Modes
    /\ exerciseType = "FOLLOW_DOT"
    /\ durationSeconds = 1
    /\ currentView = "ASSESSMENT"
    /\ demoState = "HEALTHY"
    /\ InitRehab
    /\ faceData = DEFAULT_FACE_DATA
    /\ blinkCount = 0
    /\ videoStream = FALSE
    /\ permissionError = FALSE
    /\ frameId = mainLoopEffectFrame(TRUE)
    /\ loopEnv = loopClosure(mainLoopEffectFrame(TRUE), mode, demoState)
    /\ strayFrames = 0
    /\ lastBlinkState = FALSE
    /\ prevDataRef = DEFAULT_FACE_DATA
    /\ videoIsNew = TRUE
    /\ sinceLastProcess = THROTTLE_MS
    /\ cameraPending = IF mode = "REAL" THEN 1 ELSE 0
    /\ openStreams = 0
    /\ srcObject = "none"
    /\ InitHistory

NextAssess ==
    \/ AssessFrame
    \/ AssessAdvance
    \/ StepTick
    \/ CompletionFires
    \/ AssessCameraGranted
    \/ currentView = "ASSESSMENT" /\ VideoFrame

SpecAssess == InitAssess /\ [][NextAssess]_vars

\* ... where the browser lets time pass, runs a due interval or timeout and
\* goes on calling loop: weak fairness of the clock, the step timer, the
\* completion timeout and the frames
SpecAssessLive ==
    /\ InitAssess
    /\ [][NextAssess]_vars
    /\ WF_vars(AssessAdvance)
    /\ WF_vars(StepTick)
    /\ WF_vars(CompletionFires)
    /\ WF_vars(AssessFrame)

\* The model load: App at HOME after the consent, nothing mounted; sessions
\* of RehabExercise are launched and left, started and paused, while the
\* loads they start resolve or reject
InitLoad ==
    /\ mode \in Modes
    /\ exerciseType \in Exercises
    /\ durationSeconds = 1
    /\ currentView = "HOME"
    /\ demoState = "HEALTHY"
    /\ InitRehab
    /\ InitTracker
    /\ InitHistory

NextLoad ==
    \/ LaunchRehab
    \/ NavLeave
    \/ currentView = "REHAB" /\ ClickTogglePlay
    \/ VisionResolved
    \/ VisionFailed
    \/ ModelCreated
    \/ CreateFailed

SpecLoad == InitLoad /\ [][NextLoad]_vars

\* Blinks: the same run of ticks on a centred head whose two blink scores are
\* drawn from BlinkScores
InitBlinks == InitSteady(BlinkInputs, { DEFAULT_FACE_DATA })

SpecBlinks == InitBlinks /\ [][NextSmoothing]_vars

\* The report card: a Finished session (countdown at 0, tracker inactive,
\* camera released) with the counters its exercise moves; the profile
\* buttons, the header's Mode Toggle and the restart button are pressed
InitAnalysis ==
    /\ InitApp(AnalysisDurations)
    /\ isPlaying = FALSE
    /\ isFinished = TRUE
    /\ timeLeft = 0
    /\ sessionBlinks \in IF exerciseType = "BLINK_TRAINING"
                         THEN AnalysisBlinks ELSE { 0 }
    /\ blinkCount = sessionBlinks
    /\ score \in IF exerciseType = "FOLLOW_DOT" THEN AnalysisScores
                 ELSE { sessionBlinks }
    /\ headStabilityScore \in IF exerciseType = "HEAD_STABILITY"
                              THEN AnalysisStabilities ELSE { 10000 }
    /\ timerElapsed = 0
    /\ gameElapsed = 0
    /\ faceData = IF mode = "DEMO" THEN SimFrame[demoState][SimCalm]
                  ELSE smoothedData(FaceCentred, DEFAULT_FACE_DATA)
    /\ prevDataRef = faceData
    /\ videoStream = FALSE
    /\ permissionError = FALSE
    /\ frameId = FALSE
    /\ loopEnv = << >>
    /\ strayFrames = 0
    /\ lastBlinkState = FALSE
    /\ videoIsNew = TRUE
    /\ sinceLastProcess = 0
    /\ cameraPending = 0
    /\ openStreams = 0
    /\ srcObject = IF mode = "DEMO" THEN "none" ELSE "ended"
    /\ InitHistory

NextAnalysis ==
    \/ \E s \in Profiles : SetDemoState(s)
    \/ ReportModeToggle
    \/ ClickRestart

SpecAnalysis == InitAnalysis /\ [][NextAnalysis]_vars

----------------------------------------------------------------------------
(* Derived views used by the properties *)

\* the session phase, from the two flags isPlaying and isFinished
phase ==
    IF isFinished THEN "Finished" ELSE IF isPlaying THEN "Playing" ELSE "Idle"

\* the clinical part of the report card's analysis
clinicalView ==
    IF analysis = << >> THEN << >>
    ELSE << analysis[1].clinicalValue, analysis[1].clinicalUnit,
            analysis[1].status, analysis[1].recommendation, analysis[1].notes >>

InUnit(x) == 0 <= x /\ x <= 1000

\* the report card shows a measured analysis of exercise e
measured(e) == isFinished /\ mode = "REAL" /\ exerciseType = e
\* elapsed seconds: durationSeconds - timeLeft
elapsedSeconds == durationSeconds - timeLeft

\* the four smoothed pose fields, and the distance of the published frame
\* and of the run's starting frame from the raw pose, in thousandths
PoseFields == { "yaw", "pitch", "gazeX", "gazeY" }
poseError(f) == Abs(faceData[f] - rawPose(steadyInput)[f])
startError(f) == Abs(steadyStart[f] - rawPose(steadyInput)[f])

----------------------------------------------------------------------------
(* Properties *)

\* C1: on every frame the loop processes within a session, the blink counter
\* grows by one exactly when the frame has blinkDetected and the frame before
\* it in this session (if any) has not, so that each maximal run of
\* blinkDetected frames of the session counts once; and lastBlinkState
\* becomes the frame's blinkDetected.
C1_OneBlinkPerRun ==
    [][ SessionFrame =>
          /\ blinkCount' = IF faceData'.blinkDetected /\ ~sessionLastBlink
                           THEN blinkCount + 1 ELSE blinkCount
          /\ lastBlinkState' = faceData'.blinkDetected ]_vars

\* C2: while a FOLLOW_DOT session is Playing the 100 ms scoring tick fires
\* whatever the frames do: the clock never ticks a third time with no scoring
\* tick since the start, the resume or the previous scoring tick (200 ms and
\* more of Playing without one).
C2_ScoringTickEvery100ms ==
    (isPlaying /\ exerciseType = "FOLLOW_DOT") => sinceScoreTick <= 2 * GameSteps

\* C3: a step that leaves Finished (a restart) yields score 0, blinkCount 0
\* in the tracker and in the session's copy, headStabilityScore 100, timeLeft
\* = durationSeconds and the phase Idle.
C3_RestartResets ==
    [][ (isFinished /\ ~isFinished') =>
          /\ score' = 0
          /\ blinkCount' = 0
          /\ sessionBlinks' = 0
          /\ headStabilityScore' = 10000
          /\ timeLeft' = durationSeconds
          /\ phase' = "Idle" ]_vars

\* a restarted session (no pause, yet frames were published) whose previous
\* session ended on a blink frame, its count dropped
C3_Restarted ==
    /\ phase = "Idle" /\ pauses = 0
    /\ faceData # DEFAULT_FACE_DATA /\ lastBlinkState
    /\ blinkCount = 0 /\ score = 0 /\ timeLeft = durationSeconds

C6_Countdown ==
    /\ [](timeLeft \in 0..durationSeconds)
    /\ [][ isPlaying => IF TimerTick THEN timeLeft' = timeLeft - 1
                        ELSE timeLeft' = timeLeft ]_vars

\* a Playing session after a countdown tick that did not finish it
C6_TickedOnce == isPlaying /\ timeLeft = 1 /\ durationSeconds = 2

\* C7: a Playing session eventually is Finished unless it is paused; the
\* session becomes Finished exactly in the step that takes the countdown to
\* 0, and after that step timeLeft = 0, the session is not Playing and no
\* animation frame is pending (the tracker is inactive).
C7_PlayingEndsFinished ==
    /\ isPlaying ~> (isFinished \/ ~isPlaying)
    /\ [][ (~isFinished /\ isFinished') <=>
           (isPlaying /\ timeLeft > 0 /\ timeLeft' = 0) ]_vars
    /\ [][ (~isFinished /\ isFinished') =>
           (timeLeft' = 0 /\ ~isPlaying' /\ ~frameId') ]_vars

\* a session of MaxCountdown seconds that finished without a pause
C7_FinishedUnpaused ==
    /\ isFinished /\ timeLeft = 0 /\ ~isPlaying /\ ~frameId
    /\ durationSeconds = MaxCountdown /\ pauses = 0

\* C8 as stated: the phase changes only Idle -> Playing, Playing -> Finished
\* and Finished -> Idle.
C8_ThreeTransitions ==
    [][ phase' # phase =>
          << phase, phase' >> \in { << "Idle", "Playing" >>,
                                    << "Playing", "Finished" >>,
                                    << "Finished", "Idle" >> } ]_vars

\* C8 as the code has it: besides those three (Playing -> Finished with the
\* countdown at 0) togglePlay pauses, Playing -> Idle, with timeLeft kept.
C8_TransitionsWithPause ==
    [][ phase' # phase =>
          \/ phase = "Idle" /\ phase' = "Playing"
          \/ phase = "Playing" /\ phase' = "Finished" /\ timeLeft' = 0
          \/ phase = "Finished" /\ phase' = "Idle"
          \/ phase = "Playing" /\ phase' = "Idle"
             /\ timeLeft' = timeLeft /\ timeLeft > 0 ]_vars

\* a paused session
C8_Paused == phase = "Idle" /\ pauses > 0 /\ timeLeft > 0

\* C9: headStabilityScore is within [0, 100].
C9_StabilityInRange == 0 <= headStabilityScore /\ headStabilityScore <= 10000

\* a Playing session, resumed after a pause, whose score an unstable tick
\* has taken to the floor
C9_AtFloor == isPlaying /\ headStabilityScore = 0 /\ pauses = 1

\* C10: the published frame has confidence, eyeOpennessLeft,
\* eyeOpennessRight and mouthSymmetry within [0, 1].
C10_FrameFieldsInUnit ==
    /\ InUnit(faceData.confidence)
    /\ InUnit(faceData.eyeOpennessLeft)
    /\ InUnit(faceData.eyeOpennessRight)
    /\ InUnit(faceData.mouthSymmetry)

\* the no-face frame published after a detection with both eyes shut
C10_NoFaceAfterShut ==
    /\ mode = "REAL" /\ faceData.confidence = 300
    /\ faceData.eyeOpennessLeft = 0 /\ faceData.eyeOpennessRight = 0

\* C11: within one session the blink count never decreases: no step of a
\* mounted exercise other than a restart (a step that leaves Finished) makes
\* the tracker's blinkCount or the session's copy sessionBlinks smaller,
\* across pauses, resumes, the finish, the report card's profile buttons and
\* a switch of mode.
C11_BlinksNeverDecrease ==
    [][ (currentView' = "REHAB" /\ ~(isFinished /\ ~isFinished')) =>
          (blinkCount' >= blinkCount /\ sessionBlinks' >= sessionBlinks) ]_vars

\* a session started on the detector, switched to DEMO (the camera
\* released), paused and resumed, with MaxBlinks blinks counted
C11_CountedAcrossSwitch ==
    /\ isPlaying /\ pauses = 1 /\ mode = "DEMO" /\ srcObject = "ended"
    /\ blinkCount = MaxBlinks /\ sessionBlinks = MaxBlinks

\* C12: on the detector path a tick is processed only if at least 32 ms
\* have passed since the last processed tick: over any interval that begins
\* at a processed tick the number of ticks processed after it is at most
\* elapsed / 32, whatever the spacing of the ticks; and a skipped tick
\* changes no tracker state (frame, counters, refs, camera).
C12_Throttle ==
    /\ [](windowMs >= 0 => windowFrames * THROTTLE_MS <= windowMs)
    /\ [][ (MeasuredFrame /\ sinceLastProcess' # 0) =>
             UNCHANGED << faceData, blinkCount, lastBlinkState, prevDataRef,
                          videoIsNew, frameId, cameraVars, sessionBlinks >> ]_vars

\* a window of MaxWindowFrames processed detector frames in which ticks
\* were skipped, the last tick among them
C12_SkippedInWindow ==
    /\ mode = "REAL" /\ faceData.confidence = 990
    /\ windowFrames = MaxWindowFrames
    /\ windowMs > windowFrames * THROTTLE_MS + 2 * 16
    /\ sinceLastProcess > 0

C14_NoStreamLeftOpen ==
    (~isPlaying \/ mode = "DEMO" \/ currentView = "HOME") => openStreams = 0

\* C15 as stated: with the raw detector input constant, after 10 processed
\* ticks every smoothed pose value is within 0.001 of the raw value, for
\* every starting previous-frame value.
C15_WithinEpsilonAfter10 ==
    steadyTicks >= 10 => \A f \in PoseFields : poseError(f) <= 1

\* C15 as the code has it: each processed tick halves the distance to the
\* constant raw value, no more and no less (to the model's thousandth):
\* after k ticks it is the starting distance / 2^k.  After 10 ticks it is
\* within 0.001 exactly when the starting distance is at most 1.024.
C15_ErrorHalves ==
    \A f \in PoseFields :
        /\ startError(f) <= poseError(f) * 2^steadyTicks
        /\ poseError(f) * 2^steadyTicks < startError(f) + 2^steadyTicks
        /\ steadyTicks = 10 => (poseError(f) <= 1 <=> startError(f) <= 1024)

\* a run of 10 ticks on the turned head from the frame at mount: the yaw is
\* still 0.02 degrees off 20
C15_StillOffAfter10 ==
    /\ steadyTicks = 10 /\ steadyStart = DEFAULT_FACE_DATA
    /\ steadyInput = FaceTurned /\ poseError("yaw") = 20

\* C16: in DEMO the Finished session's clinicalValue, unit, status,
\* recommendation and notes depend on exerciseType and the profile alone:
\* they are the same for every score, blink count, headStabilityScore and
\* session length; for BLINK_TRAINING with the LOW profile they are 6, BPM,
\* WARNING and the notes "Severe Dry Eye Risk", "Incomplete Blink Pattern".
C16_DemoAnalysisIsLookup ==
    (isFinished /\ mode = "DEMO") =>
        /\ \A d \in AnalysisDurations, sc \in AnalysisScores,
              b \in AnalysisBlinks, st \in AnalysisStabilities :
              LET a == detailedAnalysis("DEMO", exerciseType, d, 0, sc, b, st,
                                        demoState)
              IN  clinicalView = << a.clinicalValue, a.clinicalUnit, a.status,
                                    a.recommendation, a.notes >>
        /\ (exerciseType = "BLINK_TRAINING" /\ demoState = "LOW") =>
              /\ clinicalView[1] = 6
              /\ clinicalView[2] = "BPM"
              /\ clinicalView[3] = "WARNING"
              /\ clinicalView[5] =
                    << "Severe Dry Eye Risk", "Incomplete Blink Pattern" >>

\* the DEMO report card of a 60 s BLINK_TRAINING session with 20 blinks (a
\* normal rate, had it been measured) under the LOW profile
C16_LowProfileBlinkReport ==
    /\ isFinished /\ mode = "DEMO" /\ exerciseType = "BLINK_TRAINING"
    /\ demoState = "LOW" /\ durationSeconds = 60 /\ sessionBlinks = 20
    /\ clinicalView[1] = 6

C18_StabilityReport ==
    measured("HEAD_STABILITY") =>
        /\ clinicalView[1] = (headStabilityScore + 50) \div 100
        /\ clinicalView[3] = "CRITICAL" <=> clinicalView[1] < 60
        /\ clinicalView[3] = "WARNING" <=>
              (clinicalView[1] >= 60 /\ clinicalView[1] < 80)
        /\ clinicalView[3] = "GOOD" <=> clinicalView[1] >= 80

\* the measured report of a 30 s session that ended at stability 45
C18_FortyFiveIsCritical ==
    /\ measured("HEAD_STABILITY") /\ elapsedSeconds = 30
    /\ headStabilityScore = 4500
    /\ clinicalView[1] = 45 /\ clinicalView[3] = "CRITICAL"

\* C19: on the measured path for FOLLOW_DOT clinicalValue is
\* min(100, round(score / (elapsedSeconds * 10) * 100)), it lies in [0, 100]
\* for every score and elapsed time, and status is CRITICAL below 50 and
\* GOOD otherwise.
C19_DotReport ==
    measured("FOLLOW_DOT") =>
        /\ elapsedSeconds > 0 =>
              clinicalView[1] =
                  Min(100, (200 * score + 10 * elapsedSeconds)
                             \div (20 * elapsedSeconds))
        /\ clinicalView[1] \in 0..100
        /\ clinicalView[3] = IF clinicalView[1] < 50 THEN "CRITICAL" ELSE "GOOD"

\* the measured report of a 45 s session with score 450: 100, GOOD
C19_FullMarks ==
    /\ measured("FOLLOW_DOT") /\ elapsedSeconds = 45 /\ score = 450
    /\ clinicalView[1] = 100 /\ clinicalView[3] = "GOOD"

\* C20: on the measured path for BLINK_TRAINING status is WARNING exactly
\* when the reported BPM is below 10 or above 30, and GOOD when it is within
\* [10, 30].
C20_BlinkStatus ==
    measured("BLINK_TRAINING") =>
        /\ clinicalView[3] = "WARNING" <=>
              (clinicalView[1] < 10 \/ clinicalView[1] > 30)
        /\ clinicalView[3] = "GOOD" <=>
              (clinicalView[1] >= 10 /\ clinicalView[1] <= 30)

\* the measured report of a 60 s session with 30 blinks: 30 BPM, GOOD
C20_ThirtyIsGood ==
    /\ measured("BLINK_TRAINING") /\ elapsedSeconds = 60
    /\ sessionBlinks = 30 /\ clinicalView[1] = 30 /\ clinicalView[3] = "GOOD"

\* the five landmarks of an eye, and whether the published eye e is the
\* detected eye raw smoothed against the eye prev with LANDMARK_SMOOTHING
EyePoints == { "pupil", "upperLid", "lowerLid", "innerCorner", "outerCorner" }
eyeIsSmoothed(e, prev, raw) ==
    /\ Len(e) = 1 /\ Len(prev) = 1
    /\ \A q \in EyePoints :
          /\ Abs(10 * (e[1][q].x - prev[1][q].x) - 6 * (raw[q].x - prev[1][q].x)) < 10
          /\ Abs(10 * (e[1][q].y - prev[1][q].y) - 6 * (raw[q].y - prev[1][q].y)) < 10

\* C21 as stated: the first frame detected, no frame having been detected
\* before it, carries the raw yaw, pitch, gaze and eye landmarks of the
\* detection.
C21_FirstFrameIsRaw ==
    steadyTicks = 1 =>
        /\ \A f \in PoseFields : faceData[f] = rawPose(steadyInput)[f]
        /\ faceData.leftEye = << steadyInput.leftEye >>
        /\ faceData.rightEye = << steadyInput.rightEye >>

\* C21 as the code has it: the first detected frame carries the raw eye
\* landmarks when the previous frame has none (the frame at mount and the
\* no-face frames made of it) and landmarks smoothed against the previous
\* frame's when it has them (a simulated frame); its yaw, pitch and gaze lie
\* halfway between the previous frame's value (0 at mount) and the raw value.
C21_FirstFramePoseHalfway ==
    steadyTicks = 1 =>
        /\ \A f \in PoseFields :
              Abs(2 * faceData[f] - (steadyStart[f] + rawPose(steadyInput)[f])) <= 1
        /\ IF steadyStart.leftEye = << >>
           THEN /\ faceData.leftEye = << steadyInput.leftEye >>
                /\ faceData.rightEye = << steadyInput.rightEye >>
                /\ \A f \in PoseFields : 2 * faceData[f] = rawPose(steadyInput)[f]
           ELSE /\ eyeIsSmoothed(faceData.leftEye, steadyStart.leftEye,
                                 steadyInput.leftEye)
                /\ eyeIsSmoothed(faceData.rightEye, steadyStart.rightEye,
                                 steadyInput.rightEye)

\* the first frame detected after mount, the head turned by 20 degrees: yaw
\* 10, the eye landmarks raw
C21_TurnedHeadAtTen ==
    /\ steadyTicks = 1 /\ steadyStart = DEFAULT_FACE_DATA
    /\ steadyInput = FaceTurned /\ rawPose(steadyInput).yaw = 20000
    /\ faceData.yaw = 10000 /\ faceData.leftEye = << FaceTurned.leftEye >>

\* C22: in a Playing HEAD_STABILITY session the 100 ms scoring tick sets
\* headStabilityScore to max(0, s - 0.2) when |yaw| + |pitch| of the published
\* frame is above 5 degrees and to min(100, s + 0.05) otherwise, s being the
\* value before the tick; no other step changes it while Playing.
C22_StabilityTick ==
    [][ (isPlaying /\ exerciseType = "HEAD_STABILITY") =>
          IF GameTick
          THEN headStabilityScore' =
                  IF Abs(faceData.yaw) + Abs(faceData.pitch) > 5000
                  THEN (IF headStabilityScore - 20 < 0 THEN 0
                        ELSE headStabilityScore - 20)
                  ELSE (IF headStabilityScore + 5 > 10000 THEN 10000
                        ELSE headStabilityScore + 5)
          ELSE headStabilityScore' = headStabilityScore ]_vars

\* a Playing session on a steady frame, just after a scoring tick, its score
\* taken to 99.80 by unstable and stable scoring ticks
C22_DownAndUp ==
    /\ isPlaying /\ exerciseType = "HEAD_STABILITY"
    /\ headStabilityScore = 9980 /\ ~isUnstable(faceData) /\ gameElapsed = 0

\* C23: in a BLINK_TRAINING session the score mirrors the blink count: when
\* the session is Finished, score equals the number of blinks the edge
\* detector counted in the session.
C23_ScoreIsBlinkCount ==
    (isFinished /\ exerciseType = "BLINK_TRAINING") => score = blinkCount

\* the fields of a frame other than confidence and blinkDetected
ValueFields ==
    { "yaw", "pitch", "roll", "eyeOpennessLeft", "eyeOpennessRight",
      "mouthSymmetry", "gazeX", "gazeY", "leftEye", "rightEye" }

\* an observed run of loop that took the given path
took(path) == ObservedFrame /\ lastTick'.path = path

\* C24: a tick of the detector on which the video is ready and its current
\* time is that of the last processed video frame publishes the previous
\* frame unchanged (values, confidence, blink flag) and changes no state of
\* the adapter (previous-frame buffer, last video time, camera); the blink
\* count and the last-blink state stay as they are.
C24_DuplicateFrameIsSkipped ==
    [][ took("duplicate") =>
          /\ faceData' = prevDataRef
          /\ faceData' = faceData
          /\ UNCHANGED << prevDataRef, videoIsNew, blinkCount, lastBlinkState,
                          sessionBlinks, cameraVars >> ]_vars

\* a duplicate tick after a detected blink: the frame still has the blink
\* flag and confidence 0.99, the count is still 1
C24_DuplicateAfterBlink ==
    /\ lastTick.path = "duplicate" /\ ~videoIsNew
    /\ faceData.blinkDetected /\ faceData.confidence = 990 /\ blinkCount = 1

\* C25: when the detector returns no face the published frame equals the
\* previous frame in every field except confidence = 0.3 and blinkDetected =
\* false.
C25_NoFaceKeepsValues ==
    [][ took("noface") =>
          /\ \A f \in ValueFields : faceData'[f] = prevDataRef[f]
          /\ faceData'.confidence = 300
          /\ faceData'.blinkDetected = FALSE ]_vars

\* the no-face frame published after a detected blink: the eyes as they
\* were, the flag dropped
C25_NoFaceAfterBlink ==
    /\ lastTick.path = "noface" /\ faceData.confidence = 300
    /\ faceData.eyeOpennessLeft = 1000 - FaceBlink.blinkLeftScore
    /\ ~faceData.blinkDetected /\ ~lastBlinkState /\ blinkCount = 1

\* C26: when the detector call throws, the published frame is the previous
\* frame with every field, confidence and blinkDetected included, unchanged;
\* the run of loop ends as any other (the blink count and the last-blink
\* state stay, the next animation frame is requested).
C26_DetectorErrorKeepsFrame ==
    [][ took("error") =>
          /\ faceData' = prevDataRef
          /\ faceData' = faceData
          /\ UNCHANGED << prevDataRef, blinkCount, lastBlinkState >>
          /\ frameId' ]_vars

\* a detector error on a new video frame after a detected blink: flag and
\* confidence 0.99 kept, the next frame requested
C26_ErrorAfterBlink ==
    /\ lastTick.path = "error" /\ frameId /\ isPlaying
    /\ faceData.blinkDetected /\ faceData.confidence = 990 /\ lastBlinkState

\* C27: while the tracker is active an animation frame is pending, carrying
\* the loop of the current render; every run of loop, whichever path it
\* takes (throttled, video not ready, duplicate frame, no face, detector
\* error, detected face, synthetic tick), requests the next one.
C27_LoopAlwaysReschedules ==
    /\ [](isPlaying => (frameId /\ loopEnv # << >>))
    /\ [][ SourceFrame =>
             /\ lastTick'.path \in { "throttled", "notready", "duplicate",
                                     "noface", "error", "face", "synthetic" }
             /\ frameId' /\ loopEnv' = loopEnv ]_vars

\* a resumed detector session after a throttled tick, the next one pending
C27_ThrottledTickPending ==
    /\ lastTick.path = "throttled" /\ frameId /\ isPlaying /\ pauses = 1
    /\ mode = "REAL" /\ sinceLastProcess = 16

C28_BlinkIsStrongOrSubtle ==
    steadyTicks > 0 =>
        LET l == steadyInput.blinkLeftScore
            r == steadyInput.blinkRightScore
            strong == l + r > 1000
            subtle == /\ l + r > 400
                      /\ (IF l > r THEN l - r ELSE r - l) < 200
                      /\ l > 100
                      /\ r > 100
        IN  /\ faceData.blinkDetected = (strong \/ subtle)
            /\ prevDataRef.blinkDetected = (strong \/ subtle)

\* C28 witness: scores 0.3 and 0.201, subtle and not strong, were detected
\* and the published frame carries the blink flag
C28_SubtleBlinkPublished ==
    /\ steadyTicks > 0
    /\ steadyInput.blinkLeftScore = 300
    /\ steadyInput.blinkRightScore = 201
    /\ faceData.blinkDetected
    /\ blinkCount = 1


\* C29: after the Mode Toggle or a change of profile, also while the tracker
\* is active, every tick processed is produced by the source selected then
\* (Synthetic: simulateData with the profile selected then; Detector:
\* processFrame), and the switch leaves the blink count, the last-blink state,
\* the previous-frame buffer and the time since the last processed tick as
\* they were, with an animation frame pending exactly if the tracker is active
C29_SwitchTakesEffectNextTick ==
    /\ [][ mode' # mode \/ demoState' # demoState =>
              /\ UNCHANGED << blinkCount, lastBlinkState, prevDataRef,
                              faceData, sinceLastProcess >>
              /\ frameId' = isPlaying ]_vars
    /\ [][ SourceFrame /\ lastTick'.path # "throttled" =>
              /\ (lastTick'.path = "synthetic") = (mode = "DEMO")
              /\ mode = "DEMO" =>
                     \E s \in { SimCalm, SimBlink } :
                         faceData' = simulateData(s, demoState)
              /\ mode = "REAL" =>
                     \E ready, advanced \in BOOLEAN :
                     \E d \in { FaceCentred, FaceBlink, NoFace, DetectorError } :
                         faceData' = processFrame(ready, advanced, d, prevDataRef) ]_vars

\* C29 witness: in a session never paused, a blink was counted on a synthetic
\* tick, the Mode Toggle selected the detector, and the next processed tick
\* came from processFrame (video not ready): the count is still 1 and the
\* frame is the synthetic one with confidence 0
C29_DetectorTickAfterToggle ==
    /\ isPlaying
    /\ pauses = 0
    /\ mode = "REAL"
    /\ lastTick.path = "notready"
    /\ blinkCount = 1
    /\ lastBlinkState
    /\ faceData = notReadyData(simulateData(SimBlink, demoState))


\* C31: once the capture stream has ended while the detector is the source,
\* the scheduler stops: a tick that runs after the end requests no further
\* tick (and so none is processed after it)
C31_NoTickAfterStreamEnd ==
    [][ streamExhausted /\ mode = "REAL" /\ SourceFrame => ~frameId' ]_vars


\* gazeX and gazeY of frame f are within [-bx, bx] and [lo, hi] thousandths
gazeWithin(f, bx, lo, hi) ==
    /\ -bx <= f.gazeX /\ f.gazeX <= bx
    /\ lo <= f.gazeY /\ f.gazeY <= hi

C33_NeverPlayingAndFinished == ~(isPlaying /\ isFinished)

\* C33 witness: a session that was paused and resumed has been finished by the
\* countdown: it is Finished and not Playing
C33_FinishedAfterPause ==
    /\ isFinished
    /\ ~isPlaying
    /\ timeLeft = 0
    /\ pauses >= 1


\* C34: at most one camera stream is acquired and not yet stopped, whatever
\* the order of Start, Pause, Resume, mode and profile switches and the
\* settling of pending camera acquisitions
C34_AtMostOneOpenStream == openStreams <= 1


\* animation frame callbacks of the tracker pending in the browser
pendingTicks == (IF frameId THEN 1 ELSE 0) + strayFrames

\* C35: at most one scheduler tick is pending at any time: whenever active,
\* mode, profile, stream or permission state changes, the tick requested
\* before is cancelled before loop is requested again
C35_OneTickPending ==
    /\ pendingTicks <= 1
    /\ ~isPlaying => pendingTicks = 0

\* C35 witness: the tracker is active with the camera granted after the Mode
\* Toggle was pressed, each of which ran the effect again, and frames were
\* processed: one tick is pending
C35_TickAfterEffectRuns ==
    /\ isPlaying
    /\ mode = "REAL"
    /\ videoStream
    /\ lastTick.path = "face"
    /\ blinkCount >= 1
    /\ faceData.confidence = 990
    /\ prevDataRef.mouthSymmetry = 950
    /\ demoState = "LOW"
    /\ pendingTicks = 1


\* C36: pausing a Playing session and resuming it leaves score, blink count,
\* headStabilityScore and timeLeft as they were at the pause: neither the
\* pause, nor any step while paused, nor the resume changes one of them
C36_PauseKeepsCounters ==
    [][ (~isFinished /\ ~isFinished' /\ (~isPlaying \/ ~isPlaying')) =>
          UNCHANGED << score, blinkCount, sessionBlinks, headStabilityScore,
                       timeLeft >> ]_vars

\* C36 witness: a session resumed after a pause, its intervals just set
\* again, with a score and a blink count from before the pause
C36_ResumedWithCounters ==
    /\ isPlaying
    /\ pauses >= 1
    /\ timerElapsed = 0
    /\ gameElapsed = 0
    /\ score >= 1
    /\ blinkCount >= 1
    /\ sessionBlinks = blinkCount


\* C37: while the tracker keeps publishing frames an assessment progresses:
\* stepIndex moves 0, 1, 2, 3, 4, 5 one step at a time and never exceeds 5,
\* the countdown of a step reaches its end, and onComplete is eventually
\* called
C37_AssessmentProgresses ==
    /\ [](stepIndex \in 0..LastStep)
    /\ [][ stepIndex' # stepIndex => stepIndex' = stepIndex + 1 ]_vars
    /\ \A i \in 0..(LastStep - 1) : (stepIndex = i) ~> (stepIndex = i + 1)
    /\ <>(completions >= 1)

\* C38: onComplete is called at most once per assessment run, whatever the
\* order of frames and of the last step's completion timeout
C38_CompletesAtMostOnce == completions <= 1

\* C39: for any number of tracker mounts at most one call of setupModel is
\* past its guard at a time and none passes it once the model is loaded; the
\* step that finishes a load, resolved or rejected, leaves isModelLoading
\* false, and a rejected load leaves faceLandmarker null
C39_OneModelLoad ==
    /\ [](loadsInFlight <= 1)
    /\ [](isModelLoading <=> loadsInFlight = 1)
    /\ [][ faceLandmarker => loadsInFlight' <= loadsInFlight ]_vars
    /\ [][ loadsInFlight' < loadsInFlight => ~isModelLoading' ]_vars
    /\ [][ (loadsInFlight' < loadsInFlight /\ lastLoad' = "failed")
             => ~faceLandmarker' ]_vars

\* C39 (witness): a tracker was mounted at least twice and, with one
\* mounted, the last load to finish failed: no model and no load in flight
C39_RemountedAfterFailedLoad ==
    /\ trackerMounts >= 2
    /\ currentView = "REHAB"
    /\ lastLoad = "failed"
    /\ ~faceLandmarker
    /\ ~isModelLoading

====
